---- MODULE Spec2Model ----
(***************************************************************************)
(* A model of the generic active-record engine BaseModel[T] of             *)
(* jianyuezhexue/base (src/base.go): the ambient transaction kept in the   *)
(* gin context under the key "txDb", the CRUD operations that write        *)
(* through Tx(), the reads that go through b.Db, and the state machine     *)
(* driven EventExecution, the uniqueness checks and the list queries over  *)
(* the table, the audit hooks, the per-request cache                       *)
(* GetDataWithCtxCache, the local cache that keeps the registered entities *)
(* (src/unnamed/part_004) with its clock and timers, and ReInit.           *)
(*                                                                         *)
(* The relational store is MySQL behind gorm (src/db/db.go).  A            *)
(* transaction handle is modelled as an overlay of written rows over the   *)
(* committed table: a statement issued through a handle sees the overlay,  *)
(* a statement issued through the default handle m.Db sees committed rows  *)
(* only, commit merges the overlay and rollback discards it.               *)
(***************************************************************************)
EXTENDS Integers, Sequences, FiniteSets, TLC

\* ------------------------------------------------------------------ bounds
MaxId == 1
MaxTx == 2
MaxInitStatus == 2
MaxStatus == 1
MaxRows == 2
MaxRuns == 3
MaxPage == 2
StartTime == 2
MaxTime == 5
MaxSets == 2

\* --------------------------------------------------------------- constants
\* The default (non-transactional) handle m.Db; transaction handles are 1..MaxTx.
DefaultDb == 0

Ids == 1..MaxId
Handles == 1..MaxTx
Engines == {"e1", "e2"}
Tasks == {"t1", "t2"}

VARIABLES
    store,          \* committed rows of the entity's table, by primary key
    nextId,         \* the table's auto-increment counter
    txDb,           \* Ctx.Keys["txDb"]: [exist, value], value {} is a nil interface
    txState,        \* per transaction handle: unopened / open / committed / rolledback
    txWrites,       \* per transaction handle: rows written and not yet committed
    entity,         \* per engine: the in-memory entity (Id, Status)
    StatesMachine,  \* per engine: b.StatesMachine, nil or its current state
    cacheData,      \* localCache data: is the engine's EntityKey present
    stack,          \* per task: its running Transaction calls, innermost last
    ret,            \* the last operation and what it returned
    currUser,       \* "currUserId" and "currUserName" of the gin context when
                    \* the engines were built: [id, name]
    cacheType,      \* localCache data: what the entry under the EntityKey holds
    ctxCache,       \* Ctx.Keys[key] of GetDataWithCtxCache: [exist, value]
    getCalls,       \* per task: its running GetDataWithCtxCache call
    fnRuns,         \* how many times the compute function has run
    clock,          \* time.Now()
    request,        \* ctx.Request.Context().Deadline(): [ok, at]
    items,          \* localCache data, per key: the item stored or none
    sets,           \* the Set calls so far, in order: the key and expiration
                    \* given and the state of the timer the call started
    reads,          \* per task: its running localCache Get call
    baseModel       \* per engine: whether Ctx and Db are set, TableName and
                    \* EntityKey

\* The state outside the engine's own fields and the table.
\* The local cache with its clock and timers.
cacheVars == <<clock, request, items, sets, reads>>

aux == <<currUser, cacheType, ctxCache, getCalls, fnRuns, cacheVars, baseModel>>

vars == <<store, nextId, txDb, txState, txWrites, entity, StatesMachine,
          cacheData, stack, ret, aux>>

\* ------------------------------------------------------------------- rows
\* A row of sales_order reduced to the columns the engine decides on.
NoRow == [exists |-> FALSE, status |-> 0, deleted |-> FALSE,
          order_id |-> "", customer_name |-> "",
          create_by |-> "", create_by_name |-> "", created_at |-> "",
          update_by |-> "", update_by_name |-> ""]

\* A row that was in the table before the request: created at an earlier
\* time by another user, never updated.
Row(status) ==
    [NoRow EXCEPT !.exists = TRUE, !.status = status,
                  !.create_by = "u0", !.create_by_name = "n0",
                  !.created_at = "t0"]
NoWrites == [i \in Ids |-> NoRow]

\* A row is visible to the default queries when it exists and is not soft-deleted.
Live(r) == r.exists /\ ~r.deleted

\* The rows a statement issued through handle h sees.
View(h) ==
    IF h = DefaultDb THEN store
    ELSE [i \in Ids |-> IF txWrites[h][i].exists THEN txWrites[h][i] ELSE store[i]]

\* A statement through h can run: the default handle always, a transaction
\* handle only while open (database/sql answers ErrTxDone afterwards).
Usable(h) == h = DefaultDb \/ txState[h] = "open"

\* ------------------------------------------------------------ gin context
\* gin.Context.Get: the value and whether the key is present.  Set(key, nil)
\* leaves the key present.
CtxGet(k) == [value |-> k.value, exist |-> k.exist]
CtxSet(v) == [exist |-> TRUE, value |-> v]
CtxUnset == [exist |-> FALSE, value |-> {}]

\* Tx without the lookup of "txDb": always m.Db.
TxDefault(k) == DefaultDb

\* BaseModel.Tx: the registered handle if the key is present and not nil,
\* otherwise m.Db.
Tx(k) ==
    LET got == CtxGet(k)
    IN  IF got.exist /\ got.value # {}
        THEN CHOOSE h \in got.value : TRUE
        ELSE DefaultDb

\* BaseModel.IsInTransaction, and the same test at the head of Transaction.
IsInTransaction(k) == CtxGet(k).exist

\* ------------------------------------------------------------ return value
NoRet == [op |-> "none", e |-> "e1", err |-> "nil", via |-> {}, id |-> 0,
          initStatus |-> "", event |-> "",
          cols |-> <<>>, vals |-> <<>>, skip |-> {}, queried |-> FALSE,
          out |-> <<>>, count |-> 0, key |-> "",
          perms |-> <<>>, conds |-> <<>>, found |-> FALSE, value |-> 0,
          target |-> ""]
Ret(op, e, err) == [NoRet EXCEPT !.op = op, !.e = e, !.err = err]

\* -------------------------------------------------------- identity cache
\* GetCurrEntity that never misses.
GetCurrEntityFound(e) == TRUE

\* GetCurrEntity without the type assertion.
GetCurrEntityPresent(e) == cacheData[e]

\* BaseModel.EntityKey: the address of the entity, one per engine.
EntityKey(e) == e

\* What the cache holds under a key that an engine registered: its entity,
\* or a value of another type that a later Set put there.
EntryTypes == {"entity", "other"}

\* The zero value of BaseModel, and the engine NewBaseModel builds for an
\* entity: context and store handle set, the table named, the key of the
\* entity kept.
NoBaseModel == [Ctx |-> FALSE, Db |-> FALSE, TableName |-> "", EntityKey |-> ""]
NewBaseModel(e) ==
    [Ctx |-> TRUE, Db |-> TRUE, TableName |-> "sales_order",
     EntityKey |-> EntityKey(e)]

\* The addresses of entities: those NewBaseModel registered, one per engine,
\* and that of an entity a List query returned, which nobody registered.
Listed == "p1"
EntityKeys == Engines \cup {Listed}

\* localCache.Get(key) finds an entry: only registered keys ever have one.
Cached(k) == IF k \in Engines THEN cacheData[k] ELSE FALSE

\* BaseModel.GetCurrEntity: the entity is found while the engine's EntityKey
\* is in the cache and the entry is a *T.
GetCurrEntity(e) ==
    IF Cached(baseModel[e].EntityKey)
    THEN cacheType[baseModel[e].EntityKey] = "entity"
    ELSE FALSE

\* The error of GetCurrEntity: the key has no entry, or the entry fails the
\* type assertion; both messages carry the key.
GetCurrEntityError(e) ==
    IF ~Cached(baseModel[e].EntityKey)
    THEN [err |-> "missing", key |-> baseModel[e].EntityKey]
    ELSE IF cacheType[baseModel[e].EntityKey] # "entity"
    THEN [err |-> "assert", key |-> baseModel[e].EntityKey]
    ELSE [err |-> "nil", key |-> ""]

\* ------------------------------------------------------------- local cache
\* time.Time{}: the zero time, which item.expiry.IsZero() tests for; the
\* clock never shows it.
ZeroTime == 0

\* 5*time.Minute, the lifetime NewBaseModel gives an entity when the request
\* has no deadline, in ticks of the clock.
DefaultTTL == 2

\* A request context without a deadline, and the deadlines a request can
\* carry: already passed when the engine is built, or still ahead.
NoDeadline == [ok |-> FALSE, at |-> ZeroTime]
Deadlines == {NoDeadline} \cup
             {[ok |-> TRUE, at |-> d] : d \in (StartTime - 1)..(MaxTime - 1)}

\* The expirations a caller passes to Set: negative, zero or positive.
Expirations == (0 - 1)..DefaultTTL

\* A key without an item, and the item Set builds: the value (named by the
\* number of the Set call that stored it), the expiry time, and the timer (the
\* number of the Set call that started it, 0 for nil).
NoItem == [found |-> FALSE, value |-> 0, expiry |-> ZeroTime, timer |-> 0]
NewItem(g, expiry, expiration) ==
    [found |-> TRUE, value |-> g, expiry |-> expiry,
     timer |-> IF expiration > 0 THEN g ELSE 0]

\* A task that is not inside Get.
NoRead == [at |-> "idle", key |-> "", item |-> NoItem]

\* timer.Stop() on the timer of an item: a timer that has not fired yet never
\* runs its function; one that has fired is not held back.
Stop(ss, it) ==
    IF it.found /\ it.timer # 0
    THEN IF ss[it.timer].timer = "armed"
         THEN [ss EXCEPT ![it.timer].timer = "stopped"]
         ELSE ss
    ELSE ss

\* The remaining lifetime NewBaseModel computes: time.Until(deadline) when the
\* request has a deadline, five minutes when it has none.
RemainingDefault(req, at) == DefaultTTL
Remaining(req, at) == IF req.ok THEN req.at - at ELSE DefaultTTL

\* item.expiry of an item Set stores at a given time.
Expiry(at, expiration) == at + expiration

\* The critical section of Cache.Set: the timer of the item already under the
\* key is stopped, the new item expires at time.Now().Add(expiration), a
\* timer that deletes the key is started only for a positive expiration, and
\* the item replaces whatever the key held.
SetItems(d, ss, key, expiration, at) ==
    [d EXCEPT ![key] = NewItem(Len(ss) + 1, Expiry(at, expiration), expiration)]
SetTimers(d, ss, key, expiration, at) ==
    Append(Stop(ss, d[key]),
           [key |-> key, expiration |-> expiration, at |-> at,
            due |-> at + expiration,
            timer |-> IF expiration > 0 THEN "armed" ELSE "none"])

\* The critical section of Cache.Delete: a key that is present has its timer
\* stopped and is removed, whichever item it holds now.
DeleteItems(d, key) == [d EXCEPT ![key] = NoItem]
DeleteTimers(d, ss, key) == Stop(ss, d[key])

\* What the local cache leaves alone.
CacheOnly ==
    UNCHANGED <<store, nextId, txDb, txState, txWrites, entity, StatesMachine,
                cacheData, stack, currUser, cacheType, ctxCache, getCalls,
                fnRuns, request, baseModel>>

\* Cache.Set(key, value, expiration).
Set(key, expiration) ==
    /\ Len(sets) < MaxSets
    /\ items' = SetItems(items, sets, key, expiration, clock)
    /\ sets' = SetTimers(items, sets, key, expiration, clock)
    /\ ret' = [Ret("Set", key, "nil") EXCEPT !.key = key, !.value = Len(sets) + 1]
    /\ UNCHANGED <<clock, reads>>
    /\ CacheOnly

\* Cache.Get, first half: the item is read under the read lock and the lock
\* is released; a key without an item returns (nil, false) at once.
GetRead(t, key) ==
    /\ reads[t].at = "idle"
    /\ IF items[key].found
       THEN /\ reads' = [reads EXCEPT ![t] = [at |-> "read", key |-> key,
                                              item |-> items[key]]]
            /\ ret' = [Ret("GetRead", key, "nil") EXCEPT !.key = key]
       ELSE /\ reads' = reads
            /\ ret' = [Ret("Get", key, "nil") EXCEPT !.key = key]
    /\ UNCHANGED <<clock, items, sets>>
    /\ CacheOnly

\* Whether Get takes the item it read for live.
Unexpired(it, at) == it.expiry = ZeroTime \/ at < it.expiry

\* Cache.Get, second half, without the lock: an item whose expiry is the zero
\* time or still ahead is returned; otherwise Delete(key) runs and the
\* call returns (nil, false).
GetCheck(t) ==
    /\ reads[t].at = "read"
    /\ LET key == reads[t].key
           it == reads[t].item
       IN  IF Unexpired(it, clock)
           THEN /\ ret' = [Ret("Get", key, "nil") EXCEPT !.key = key,
                               !.found = TRUE, !.value = it.value]
                /\ UNCHANGED <<items, sets>>
           ELSE /\ ret' = [Ret("Get", key, "nil") EXCEPT !.key = key,
                               !.value = it.value]
                /\ items' = DeleteItems(items, key)
                /\ sets' = DeleteTimers(items, sets, key)
    /\ reads' = [reads EXCEPT ![t] = NoRead]
    /\ UNCHANGED clock
    /\ CacheOnly

\* Cache.Delete(key), called by a client.
Delete(key) ==
    /\ items' = DeleteItems(items, key)
    /\ sets' = DeleteTimers(items, sets, key)
    /\ ret' = [Ret("Delete", key, "nil") EXCEPT !.key = key]
    /\ UNCHANGED <<clock, reads>>
    /\ CacheOnly

\* time.AfterFunc: once the expiration has elapsed the timer fires and its
\* function is started in a goroutine of its own.
TimerFire(g) ==
    /\ sets[g].timer = "armed"
    /\ clock >= sets[g].due
    /\ sets' = [sets EXCEPT ![g].timer = "fired"]
    /\ ret' = [Ret("TimerFire", sets[g].key, "nil") EXCEPT !.value = g]
    /\ UNCHANGED <<clock, items, reads>>
    /\ CacheOnly

\* The function of a timer that fired: c.Delete(key), once it gets the lock.
TimerRun(g) ==
    /\ sets[g].timer = "fired"
    /\ items' = DeleteItems(items, sets[g].key)
    /\ sets' = [DeleteTimers(items, sets, sets[g].key) EXCEPT ![g].timer = "done"]
    /\ ret' = [Ret("TimerRun", sets[g].key, "nil") EXCEPT !.value = g]
    /\ UNCHANGED <<clock, reads>>
    /\ CacheOnly

\* The clock advances.
Tick ==
    /\ clock < MaxTime
    /\ clock' = clock + 1
    /\ ret' = Ret("Tick", "e1", "nil")
    /\ UNCHANGED <<items, sets, reads>>
    /\ CacheOnly

\* ------------------------------------------------------ status conversion
\* The status column is an int on the entity and a string in the state
\* machine: strconv.Itoa on the way in, strconv.Atoi (error dropped, so 0
\* for a non-number) on the way out.
Digits == <<"0", "1", "2", "3", "4", "5", "6">>
Itoa(i) == Digits[i + 1]
Atoi(s) ==
    IF \E i \in 1..Len(Digits) : Digits[i] = s
    THEN (CHOOSE i \in 1..Len(Digits) : Digits[i] = s) - 1
    ELSE 0

\* ----------------------------------------------------------- state machine
\* The transition table of the sales order (Src, Name, Dst).
Events == <<
    [Src |-> {"0"},      Name |-> "confirm",      Dst |-> "1"],
    [Src |-> {"1", "2"}, Name |-> "partDelivery", Dst |-> "2"],
    [Src |-> {"1", "2"}, Name |-> "allDelivery",  Dst |-> "3"],
    [Src |-> {"3"},      Name |-> "signFor",      Dst |-> "4"],
    [Src |-> {"4"},      Name |-> "back",         Dst |-> "5"],
    [Src |-> {"4", "5"}, Name |-> "returnGoods",  Dst |-> "6"] >>

EventNames == {Events[i].Name : i \in 1..Len(Events)}

\* The inputs of EventExecution: the states 0..MaxInitStatus and every
\* declared event plus one that the table does not declare.
InitStatuses == {Itoa(i) : i \in 0..MaxInitStatus}
EventInputs == EventNames \cup {"undeclared"}

\* fsm transitions map: is there an entry for eKey{event, src}, and its dst.
HasTransition(event, src) ==
    \E i \in 1..Len(Events) : Events[i].Name = event /\ src \in Events[i].Src
TransitionDst(event, src) ==
    Events[CHOOSE i \in 1..Len(Events) :
               Events[i].Name = event /\ src \in Events[i].Src].Dst

\* The callbacks a caller of InitStateMachine registers next to the
\* after_event hook: none, a before_event callback that cancels the event, or
\* an after_<event> callback that reports an error through Event.Err.
NoCallbacks == "none"
Callbacks == {NoCallbacks, "cancel", "fail"}

NilMachine == [isNil |-> TRUE, current |-> "", callbacks |-> NoCallbacks]
\* fsm.NewFSM(initStatus, events, callbacks)
NewFSM(initStatus, callbacks) ==
    [isNil |-> FALSE, current |-> initStatus, callbacks |-> callbacks]
\* A reset that only gives a state to a machine that has none.
SetStateIfUnset(sm, s) == IF sm.current = "" THEN [sm EXCEPT !.current = s] ELSE sm

\* SetState left out: the machine stays where it is.
SetStateSkipped(sm, s) == sm

\* fsm.SetState
SetState(sm, s) == [sm EXCEPT !.current = s]
\* fsm.Can: the event has a transition from the current state.
Can(sm, event) == HasTransition(event, sm.current)

\* SalesOrderEntity.EventCallBack, the after_event hook: the entity's Status
\* becomes the destination of the event.
EventCallBack(ent, dst) == [ent EXCEPT !.Status = Atoi(dst)]

\* fsm.Event from a state where Can holds.  A before_event callback that
\* cancels ends the event with CanceledError before anything moves.
\* Otherwise the machine moves to the destination and the after callbacks
\* run, the after_event hook among them; when the destination is the current
\* state the callbacks still run and the result is NoTransitionError{e.Err}.
\* A callback that set e.Err makes that the error of the event, on its own
\* or inside the NoTransitionError.
FireEvent(sm, event) ==
    LET dst == TransitionDst(event, sm.current)
    IN  IF sm.callbacks = "cancel"
        THEN [machine |-> sm, dst |-> dst, err |-> "CanceledError", ran |-> FALSE]
        ELSE [machine |-> [sm EXCEPT !.current = dst],
              dst     |-> dst,
              ran     |-> TRUE,
              err     |-> IF sm.callbacks = "fail"
                          THEN IF dst = sm.current
                               THEN "NoTransitionError{err}" ELSE "err"
                          ELSE IF dst = sm.current
                               THEN "NoTransitionError" ELSE "nil"]

\* An abort test that takes every error of Event for a failure.
EventFailedAny(err) == err # "nil"

\* An abort test that tolerates every no-transition error, whatever it wraps.
EventFailedUnwrapped(err) ==
    err \notin {"nil", "NoTransitionError", "NoTransitionError{err}"}

\* errors.Is(err, fsm.NoTransitionError{Err: nil}) tolerates the no transition
\* outcome that carries no error; every other error of Event aborts.
EventFailed(err) == err # "nil" /\ err # "NoTransitionError"

\* ----------------------------------------------------------------- entity
\* The in-memory entity: the primary key, the columns of the order and the
\* creator and updater of the embedded BaseModel, all zero in a new entity.
NewEntity == [Id |-> 0, Status |-> 0, OrderId |-> "", CustomerName |-> "",
              CreateBy |-> "", CreateByName |-> "",
              UpdateBy |-> "", UpdateByName |-> ""]

\* gorm scans the row with primary key id into the entity.
Scan(id, r) ==
    [Id |-> id, Status |-> r.status, OrderId |-> r.order_id,
     CustomerName |-> r.customer_name,
     CreateBy |-> r.create_by, CreateByName |-> r.create_by_name,
     UpdateBy |-> r.update_by, UpdateByName |-> r.update_by_name]

\* ------------------------------------------------------------------ hooks
\* What ctx.Get answers for a key the gin context does not hold: nil.
Absent == "<nil>"

\* The actor of the requests that carry one.
Actor == [id |-> "u1", name |-> "n1"]

\* An actor check that never fails.
ActorMissingNever(user) == FALSE

\* Every hook first reads the current actor from the statement context,
\* where NewBaseModel put what the gin context held; a nil or "" identity or
\* name is an error.
ActorMissing(user) ==
    \/ user.id = Absent \/ user.id = ""
    \/ user.name = Absent \/ user.name = ""

\* BeforeCreate and BeforeSave stamp the creator on an entity without a
\* primary key and the updater on one that has it; BeforeUpdate and
\* BeforeDelete stamp the updater.
BeforeCreate(ent) ==
    IF ent.Id = 0
    THEN [ent EXCEPT !.CreateBy = currUser.id, !.CreateByName = currUser.name]
    ELSE [ent EXCEPT !.UpdateBy = currUser.id, !.UpdateByName = currUser.name]
BeforeSave(ent) ==
    IF ent.Id = 0
    THEN [ent EXCEPT !.CreateBy = currUser.id, !.CreateByName = currUser.name]
    ELSE [ent EXCEPT !.UpdateBy = currUser.id, !.UpdateByName = currUser.name]
BeforeUpdate(ent) ==
    [ent EXCEPT !.UpdateBy = currUser.id, !.UpdateByName = currUser.name]
BeforeDelete(ent) ==
    [ent EXCEPT !.UpdateBy = currUser.id, !.UpdateByName = currUser.name]

\* ------------------------------------------------------------------- Init
\* A task that is not inside GetDataWithCtxCache.
NoCall == [at |-> "idle", data |-> 0]

\* One request scope with a current actor, an engine per entity built by
\* NewBaseModel (entity registered in the identity cache, no state machine
\* yet, no "txDb" key), and a table that is empty or holds one confirmed
\* order.
InitRequest ==
    /\ txDb = CtxUnset
    /\ txState = [h \in Handles |-> "unopened"]
    /\ txWrites = [h \in Handles |-> NoWrites]
    /\ StatesMachine = [e \in Engines |-> NilMachine]
    /\ cacheData = [e \in Engines |-> TRUE]
    /\ cacheType = [e \in Engines |-> "entity"]
    /\ stack = [t \in Tasks |-> <<>>]
    /\ ret = NoRet
    /\ ctxCache = CtxUnset
    /\ getCalls = [t \in Tasks |-> NoCall]
    /\ fnRuns = 0

\* NewCache: the singleton starts with an empty map; no Set has run and no
\* task is inside Get.
NewCache == [k \in Engines |-> NoItem]

InitScope ==
    /\ InitRequest
    /\ clock = StartTime
    /\ request = NoDeadline
    /\ items = NewCache
    /\ sets = <<>>
    /\ reads = [t \in Tasks |-> NoRead]
    /\ baseModel = [e \in Engines |-> NewBaseModel(e)]

Init ==
    /\ \E first \in {NoRow, Row(1)} :
           /\ store = [i \in Ids |-> IF i = 1 THEN first ELSE NoRow]
           /\ nextId = IF first.exists THEN 2 ELSE 1
    /\ entity = [e \in Engines |-> NewEntity]
    /\ currUser = Actor
    /\ InitScope

\* The innermost Transaction call of a task: where it stands (begin, register,
\* closure), the handle gorm opened for it and the engine it was called on.
Top(t) == stack[t][Len(stack[t])]
Pop(t) == SubSeq(stack[t], 1, Len(stack[t]) - 1)
InClosure(t) == IF stack[t] = <<>> THEN FALSE ELSE Top(t).at = "closure"

\* A task can call an engine operation from outside a Transaction or from
\* inside its closure, not while gorm is opening the transaction.
CanCall(t) == IF stack[t] = <<>> THEN TRUE ELSE Top(t).at = "closure"

\* -------------------------------------------------------- gorm statements
\* The rows after writing row r under key i through handle h.
PutRow(h, i, r) ==
    IF h = DefaultDb
    THEN /\ store' = [store EXCEPT ![i] = r]
         /\ UNCHANGED txWrites
    ELSE /\ txWrites' = [txWrites EXCEPT ![h][i] = r]
         /\ UNCHANGED store

\* gorm Create of ent through h: the key is the entity's, or the next
\* auto-increment value when the entity has none; a key already in the table
\* (soft-deleted or not) is a duplicate-key error.  The counter is not given
\* back by a rollback.
InsertKey(ent) == IF ent.Id = 0 THEN nextId ELSE ent.Id
InsertFails(h, ent) == ~Usable(h) \/ View(h)[InsertKey(ent)].exists

\* gorm Save of ent through h: an insert when the primary key is zero,
\* otherwise update-all-columns of the row, inserted if missing.
SaveFails(h, ent) == IF ent.Id = 0 THEN InsertFails(h, ent) ELSE ~Usable(h)
SaveKey(ent) == InsertKey(ent)

\* An insert that runs no hook.
CreateHooksNone(ent) == ent

\* The hooks gorm runs before an insert, and before a Save (the create hooks
\* for a zero primary key, the update hooks otherwise).
CreateHooks(ent) == BeforeCreate(BeforeSave(ent))
SaveHooks(ent) ==
    IF ent.Id = 0 THEN BeforeCreate(BeforeSave(ent)) ELSE BeforeUpdate(BeforeSave(ent))

\* The row an INSERT writes.  The update-only columns are never part of an
\* insert (Omit and the "<-:update" tags); with the create columns omitted
\* the creator is the column default.  The creation time is the time of the
\* insert.
InsertRow(ent, omitCreate) ==
    [NoRow EXCEPT !.exists = TRUE, !.status = ent.Status,
                  !.order_id = ent.OrderId, !.customer_name = ent.CustomerName,
                  !.create_by = IF omitCreate THEN "" ELSE ent.CreateBy,
                  !.create_by_name = IF omitCreate THEN "" ELSE ent.CreateByName,
                  !.created_at = "now"]

\* The entity after its INSERT under key: gorm writes the key back.
AfterInsert(ent, key) == [ent EXCEPT !.Id = key]

\* An UPDATE that writes the create columns too.
UpdateRowAll(old, ent) ==
    [old EXCEPT !.status = ent.Status, !.order_id = ent.OrderId,
                !.customer_name = ent.CustomerName,
                !.update_by = ent.UpdateBy, !.update_by_name = ent.UpdateByName,
                !.create_by = ent.CreateBy, !.create_by_name = ent.CreateByName,
                !.created_at = "now"]

\* The row an UPDATE of every column leaves: the create columns are never
\* updated (Omit and the "<-:create" tags).
UpdateRow(old, ent) ==
    [old EXCEPT !.status = ent.Status, !.order_id = ent.OrderId,
                !.customer_name = ent.CustomerName,
                !.update_by = ent.UpdateBy, !.update_by_name = ent.UpdateByName]

\* The upsert Save falls back to when the UPDATE matched no live row: a
\* soft-deleted row gets the entity's columns and is live again.
ReviveRow(old, ent) ==
    [old EXCEPT !.status = ent.Status, !.order_id = ent.OrderId,
                !.customer_name = ent.CustomerName, !.deleted = FALSE]

\* The row a Save of ent through h leaves under its key.
SavedRow(h, ent, omitCreate) ==
    LET old == View(h)[SaveKey(ent)] IN
    IF ent.Id = 0 THEN InsertRow(ent, omitCreate)
    ELSE IF Live(old) THEN UpdateRow(old, ent)
    ELSE IF old.exists THEN ReviveRow(old, ent)
    ELSE InsertRow(ent, omitCreate)

\* ------------------------------------------------------------ CRUD engine
\* BaseModel.Create
Create(t, e) ==
    /\ CanCall(t)
    /\ entity[e].Id = 0 => nextId <= MaxId
    /\ LET h   == Tx(txDb)
           ent == CreateHooks(entity[e])
           row == InsertRow(ent, FALSE) IN
       IF ~GetCurrEntity(e)
       THEN /\ ret' = Ret("Create", e, "config")
            /\ UNCHANGED <<store, txWrites, nextId, entity>>
       ELSE IF ActorMissing(currUser)
       THEN /\ ret' = Ret("Create", e, "actor")
            /\ UNCHANGED <<store, txWrites, nextId, entity>>
       ELSE IF InsertFails(h, ent)
       THEN /\ ret' = [Ret("Create", e, "storage") EXCEPT !.via = {h}]
            /\ entity' = [entity EXCEPT ![e] = ent]
            /\ UNCHANGED <<store, txWrites, nextId>>
       ELSE /\ PutRow(h, InsertKey(ent), row)
            /\ entity' = [entity EXCEPT ![e] = AfterInsert(ent, InsertKey(ent))]
            /\ nextId' = IF ent.Id = 0 THEN nextId + 1 ELSE nextId
            /\ ret' = [Ret("Create", e, "nil") EXCEPT !.via = {h}]
    /\ UNCHANGED <<txDb, txState, StatesMachine, cacheData, stack>>
    /\ UNCHANGED aux

\* BaseModel.CreateWithData: the same insert of a caller supplied object,
\* without the identity cache.
CreateWithData(t, e, status) ==
    /\ CanCall(t)
    /\ nextId <= MaxId
    /\ LET h    == Tx(txDb)
           data == CreateHooks([NewEntity EXCEPT !.Status = status]) IN
       IF ActorMissing(currUser)
       THEN /\ ret' = Ret("CreateWithData", e, "actor")
            /\ UNCHANGED <<store, txWrites, nextId>>
       ELSE IF InsertFails(h, data)
       THEN /\ ret' = [Ret("CreateWithData", e, "storage") EXCEPT !.via = {h}]
            /\ UNCHANGED <<store, txWrites, nextId>>
       ELSE /\ PutRow(h, nextId, InsertRow(data, FALSE))
            /\ nextId' = nextId + 1
            /\ ret' = [Ret("CreateWithData", e, "nil") EXCEPT !.via = {h}]
    /\ UNCHANGED <<txDb, txState, entity, StatesMachine, cacheData, stack>>
    /\ UNCHANGED aux

\* BaseModel.Update
Update(t, e) ==
    /\ CanCall(t)
    /\ entity[e].Id = 0 => nextId <= MaxId
    /\ LET h   == Tx(txDb)
           ent == SaveHooks(entity[e]) IN
       IF ~GetCurrEntity(e)
       THEN /\ ret' = Ret("Update", e, "config")
            /\ UNCHANGED <<store, txWrites, nextId, entity>>
       ELSE IF ActorMissing(currUser)
       THEN /\ ret' = Ret("Update", e, "actor")
            /\ UNCHANGED <<store, txWrites, nextId, entity>>
       ELSE IF SaveFails(h, ent)
       THEN /\ ret' = [Ret("Update", e, "storage") EXCEPT !.via = {h}]
            /\ entity' = [entity EXCEPT ![e] = ent]
            /\ UNCHANGED <<store, txWrites, nextId>>
       ELSE /\ PutRow(h, SaveKey(ent), SavedRow(h, ent, TRUE))
            /\ entity' = [entity EXCEPT ![e] =
                             IF ent.Id = 0 THEN AfterInsert(ent, SaveKey(ent)) ELSE ent]
            /\ nextId' = IF ent.Id = 0 THEN nextId + 1 ELSE nextId
            /\ ret' = [Ret("Update", e, "nil") EXCEPT !.via = {h}, !.id = SaveKey(ent)]
    /\ UNCHANGED <<txDb, txState, StatesMachine, cacheData, stack>>
    /\ UNCHANGED aux

\* BaseModel.UpdateWithData: the same save of a caller supplied object that
\* carries a primary key.
UpdateWithData(t, e, id, status) ==
    /\ CanCall(t)
    /\ id < nextId
    /\ LET h    == Tx(txDb)
           data == SaveHooks([NewEntity EXCEPT !.Id = id, !.Status = status]) IN
       IF ActorMissing(currUser)
       THEN /\ ret' = Ret("UpdateWithData", e, "actor")
            /\ UNCHANGED <<store, txWrites>>
       ELSE IF ~Usable(h)
       THEN /\ ret' = [Ret("UpdateWithData", e, "storage") EXCEPT !.via = {h}]
            /\ UNCHANGED <<store, txWrites>>
       ELSE /\ PutRow(h, id, SavedRow(h, data, TRUE))
            /\ ret' = [Ret("UpdateWithData", e, "nil") EXCEPT !.via = {h}]
    /\ UNCHANGED <<nextId, txDb, txState, entity, StatesMachine, cacheData, stack>>
    /\ UNCHANGED aux

\* BaseModel.Del: one soft delete statement for the live rows among ids.
Del(t, e, ids) ==
    /\ CanCall(t)
    /\ LET h == Tx(txDb)
           marked == [i \in Ids |->
                         IF i \in ids /\ Live(View(h)[i])
                         THEN [View(h)[i] EXCEPT !.deleted = TRUE]
                         ELSE NoRow] IN
       IF ActorMissing(currUser)
       THEN /\ ret' = Ret("Del", e, "actor")
            /\ UNCHANGED <<store, txWrites>>
       ELSE IF ~Usable(h)
       THEN /\ ret' = [Ret("Del", e, "storage") EXCEPT !.via = {h}]
            /\ UNCHANGED <<store, txWrites>>
       ELSE /\ IF h = DefaultDb
               THEN /\ store' = [i \in Ids |->
                                    IF marked[i].exists THEN marked[i] ELSE store[i]]
                    /\ UNCHANGED txWrites
               ELSE /\ txWrites' = [txWrites EXCEPT ![h] =
                                       [i \in Ids |-> IF marked[i].exists
                                                      THEN marked[i] ELSE @[i]]]
                    /\ UNCHANGED store
            /\ ret' = [Ret("Del", e, "nil") EXCEPT !.via = {h}]
    /\ UNCHANGED <<nextId, txDb, txState, entity, StatesMachine, cacheData, stack>>
    /\ UNCHANGED aux

\* The handle the load operations query: b.Db, whatever "txDb" holds.
LoadDb(k) == DefaultDb

\* BaseModel.LoadById: First(entity) with "id = ?" through b.Db.  gorm adds
\* the primary key of the destination to the conditions when it is not zero.
LoadById(t, e, id) ==
    /\ CanCall(t)
    /\ LET h == LoadDb(txDb)
           row == View(h)[id] IN
       IF ~GetCurrEntity(e)
       THEN /\ ret' = [Ret("LoadById", e, "config") EXCEPT !.id = id]
            /\ UNCHANGED entity
       ELSE IF ~Usable(h)
       THEN /\ ret' = [Ret("LoadById", e, "storage") EXCEPT !.id = id, !.via = {h}]
            /\ UNCHANGED entity
       ELSE IF Live(row) /\ entity[e].Id \in {0, id}
       THEN /\ entity' = [entity EXCEPT ![e] = Scan(id, row)]
            /\ ret' = [Ret("LoadById", e, "nil") EXCEPT !.id = id, !.via = {h}]
       ELSE /\ ret' = [Ret("LoadById", e, "notfound") EXCEPT !.id = id, !.via = {h}]
            /\ UNCHANGED entity
    /\ UNCHANGED <<store, nextId, txDb, txState, txWrites, StatesMachine,
                   cacheData, stack>>
    /\ UNCHANGED aux

\* The caller changes the status of the entity in memory (saleOrderData.Status = 2).
SetStatus(t, e, status) ==
    /\ CanCall(t)
    /\ entity' = [entity EXCEPT ![e].Status = status]
    /\ ret' = Ret("SetStatus", e, "nil")
    /\ UNCHANGED <<store, nextId, txDb, txState, txWrites, StatesMachine,
                   cacheData, stack>>
    /\ UNCHANGED aux

\* The expiry timer of the identity cache entry fires: Cache.Delete(key).
CacheExpire(e) ==
    /\ cacheData[e]
    /\ cacheData' = [cacheData EXCEPT ![e] = FALSE]
    /\ ret' = Ret("CacheExpire", e, "nil")
    /\ UNCHANGED <<store, nextId, txDb, txState, txWrites, entity, StatesMachine,
                   stack>>
    /\ UNCHANGED aux

\* ------------------------------------------------------------ state machine
\* BaseModel.InitStateMachine
InitStateMachine(t, e, initStatus, callbacks) ==
    /\ CanCall(t)
    /\ StatesMachine' = [StatesMachine EXCEPT ![e] = NewFSM(initStatus, callbacks)]
    /\ ret' = [Ret("InitStateMachine", e, "nil") EXCEPT !.initStatus = initStatus]
    /\ UNCHANGED <<store, nextId, txDb, txState, txWrites, entity, cacheData, stack>>
    /\ UNCHANGED aux

\* BaseModel.EventExecution
EventExecution(t, e, initStatus, event) ==
    /\ CanCall(t)
    /\ entity[e].Id = 0 => nextId <= MaxId
    /\ LET call  == [Ret("EventExecution", e, "nil")
                        EXCEPT !.initStatus = initStatus, !.event = event]
           reset == SetState(StatesMachine[e], initStatus)
           fired == FireEvent(reset, event)
           after == EventCallBack(entity[e], fired.dst)
           saved == SaveHooks(after)
           h     == Tx(txDb) IN
       IF StatesMachine[e].isNil
       THEN /\ ret' = [call EXCEPT !.err = "config"]
            /\ UNCHANGED <<store, txWrites, nextId, entity, StatesMachine>>
       ELSE IF ~GetCurrEntity(e)
       THEN /\ ret' = [call EXCEPT !.err = "config"]
            /\ UNCHANGED <<store, txWrites, nextId, entity, StatesMachine>>
       ELSE IF ~Can(reset, event)
       THEN /\ ret' = [call EXCEPT !.err = "illegal"]
            /\ StatesMachine' = [StatesMachine EXCEPT ![e] = reset]
            /\ UNCHANGED <<store, txWrites, nextId, entity>>
       ELSE IF EventFailed(fired.err)
       THEN /\ ret' = [call EXCEPT !.err = "event"]
            /\ StatesMachine' = [StatesMachine EXCEPT ![e] = fired.machine]
            /\ entity' = [entity EXCEPT ![e] = IF fired.ran THEN after ELSE @]
            /\ UNCHANGED <<store, txWrites, nextId>>
       ELSE IF ActorMissing(currUser)
       THEN /\ ret' = [call EXCEPT !.err = "actor"]
            /\ StatesMachine' = [StatesMachine EXCEPT ![e] = fired.machine]
            /\ entity' = [entity EXCEPT ![e] = after]
            /\ UNCHANGED <<store, txWrites, nextId>>
       ELSE IF SaveFails(h, saved)
       THEN /\ ret' = [call EXCEPT !.err = "save", !.via = {h}]
            /\ StatesMachine' = [StatesMachine EXCEPT ![e] = fired.machine]
            /\ entity' = [entity EXCEPT ![e] = saved]
            /\ UNCHANGED <<store, txWrites, nextId>>
       ELSE /\ PutRow(h, SaveKey(saved), SavedRow(h, saved, FALSE))
            /\ StatesMachine' = [StatesMachine EXCEPT ![e] = fired.machine]
            /\ entity' = [entity EXCEPT ![e] =
                             IF saved.Id = 0 THEN AfterInsert(saved, SaveKey(saved))
                             ELSE saved]
            /\ nextId' = IF saved.Id = 0 THEN nextId + 1 ELSE nextId
            /\ ret' = [call EXCEPT !.via = {h}]
    /\ UNCHANGED <<txDb, txState, cacheData, stack>>
    /\ UNCHANGED aux

\* ------------------------------------------------------------- transaction
\* A guard that never rejects.
AlreadyOpenNever(k) == FALSE

\* The guard at the head of Transaction: a present "txDb" key rejects the call.
AlreadyOpen(k) == IsInTransaction(k)

\* BaseModel.Transaction, up to the call of m.Db.Transaction: the guard
\* rejects the call, or the task goes on to open a transaction.
TransactionCall(t, m) ==
    /\ CanCall(t)
    /\ IF AlreadyOpen(txDb)
       THEN /\ ret' = Ret("Transaction", m, "nested")
            /\ UNCHANGED stack
       ELSE /\ \E h \in Handles : txState[h] = "unopened"
            /\ stack' = [stack EXCEPT ![t] =
                            Append(@, [at |-> "begin", tx |-> DefaultDb, m |-> m])]
            /\ ret' = Ret("TransactionCall", m, "nil")
    /\ UNCHANGED <<store, nextId, txDb, txState, txWrites, entity, StatesMachine,
                   cacheData>>
    /\ UNCHANGED aux

\* gorm's db.Transaction begins a transaction: a new handle.
TransactionBegin(t) ==
    /\ stack[t] # <<>>
    /\ Top(t).at = "begin"
    /\ LET h == CHOOSE x \in Handles :
                    /\ txState[x] = "unopened"
                    /\ \A y \in Handles : txState[y] = "unopened" => x <= y IN
       /\ txState' = [txState EXCEPT ![h] = "open"]
       /\ stack' = [stack EXCEPT ![t] =
                       Append(Pop(t), [Top(t) EXCEPT !.at = "register", !.tx = h])]
    /\ ret' = Ret("TransactionBegin", Top(t).m, "nil")
    /\ UNCHANGED <<store, nextId, txDb, txWrites, entity, StatesMachine, cacheData>>
    /\ UNCHANGED aux

\* The closure given to gorm starts: m.Ctx.Set("txDb", tx), then fc runs.
TransactionRegister(t) ==
    /\ stack[t] # <<>>
    /\ Top(t).at = "register"
    /\ txDb' = CtxSet({Top(t).tx})
    /\ stack' = [stack EXCEPT ![t] = Append(Pop(t), [Top(t) EXCEPT !.at = "closure"])]
    /\ ret' = Ret("TransactionRegister", Top(t).m, "nil")
    /\ UNCHANGED <<store, nextId, txState, txWrites, entity, StatesMachine,
                   cacheData>>
    /\ UNCHANGED aux

\* A closure that leaves "txDb" as it finds it.
KeyKept(k) == k

\* What the closure leaves under "txDb" when fc returned nil, and when fc
\* returned an error.
KeyAfterSuccess(k) == CtxSet({})
KeyAfterFailure(k) == k

\* A rollback that keeps the rows written through the handle.
RowsAfterRollbackKept(h) == View(h)

\* The committed rows after the transaction of handle h ends.
RowsAfterCommit(h) == View(h)
RowsAfterRollback(h) == store

\* fc returns: with an error the closure returns it at once and gorm rolls
\* back; with nil the closure sets "txDb" to nil and gorm commits.
TransactionReturn(t, fcErr) ==
    /\ InClosure(t)
    /\ LET h == Top(t).tx IN
       IF fcErr
       THEN /\ txDb' = KeyAfterFailure(txDb)
            /\ store' = RowsAfterRollback(h)
            /\ txState' = [txState EXCEPT ![h] = "rolledback"]
            /\ txWrites' = [txWrites EXCEPT ![h] = NoWrites]
            /\ ret' = Ret("Transaction", Top(t).m, "fc")
       ELSE /\ txDb' = KeyAfterSuccess(txDb)
            /\ store' = RowsAfterCommit(h)
            /\ txState' = [txState EXCEPT ![h] = "committed"]
            /\ txWrites' = [txWrites EXCEPT ![h] = NoWrites]
            /\ ret' = Ret("Transaction", Top(t).m, "nil")
    /\ stack' = [stack EXCEPT ![t] = Pop(t)]
    /\ UNCHANGED <<nextId, entity, StatesMachine, cacheData>>
    /\ UNCHANGED aux

\* ------------------------------------------------------------ column names
\* A column name is the text the caller passes, a sequence of characters.
Letters == {"a", "b", "c", "d", "e", "f", "g", "h", "i", "j", "k", "l", "m",
            "n", "o", "p", "q", "r", "s", "t", "u", "v", "w", "x", "y", "z"}
DigitChars == {"0", "1", "2", "3", "4", "5", "6", "7", "8", "9"}

\* safeColumnNameRegex: ^([a-zA-Z_][a-zA-Z0-9_]*)(\.[a-zA-Z_][a-zA-Z0-9_]*)*$
\* read from position i, segStart telling that a segment has to begin there.
RECURSIVE MatchString(_, _, _)
MatchString(column, i, segStart) ==
    IF i > Len(column) THEN ~segStart
    ELSE IF segStart
         THEN column[i] \in Letters \cup {"_"} /\ MatchString(column, i + 1, FALSE)
    ELSE IF column[i] = "."
         THEN MatchString(column, i + 1, TRUE)
    ELSE column[i] \in Letters \cup DigitChars \cup {"_"}
         /\ MatchString(column, i + 1, FALSE)

\* validateSafeColumnName: nil, or the error for an empty or illegal name.
validateSafeColumnName(column) ==
    IF column = <<>> THEN "empty"
    ELSE IF ~MatchString(column, 1, TRUE) THEN "illegal"
    ELSE "nil"

\* The columns of sales_order the checks are asked about, and the table name.
ColOrderId == <<"o", "r", "d", "e", "r", "_", "i", "d">>
ColCustomerName == <<"c", "u", "s", "t", "o", "m", "e", "r", "_", "n", "a", "m", "e">>
TabSalesOrder == <<"s", "a", "l", "e", "s", "_", "o", "r", "d", "e", "r">>

\* The column of the table a name resolves to in a statement, "" when MySQL
\* knows no such column (the statement fails).
ColumnField(column) ==
    IF column \in {ColOrderId, TabSalesOrder \o <<".">> \o ColOrderId}
    THEN "order_id"
    ELSE IF column \in {ColCustomerName, TabSalesOrder \o <<".">> \o ColCustomerName}
    THEN "customer_name"
    ELSE ""

\* The names callers pass: the two columns, a qualified one, a well-formed
\* name of no column, and names the pattern refuses.
GoodColumns == {ColOrderId, ColCustomerName, TabSalesOrder \o <<".">> \o ColOrderId,
                <<"x">>}
BadColumns == {<<>>, <<"1", "x">>, ColOrderId \o <<";">>, ColOrderId \o <<".">>,
               <<"i", "d", " ", "o", "r", " ", "1">>}
ColumnInputs == GoodColumns \cup BadColumns

\* ------------------------------------------------------- uniqueness checks
\* Does row r hold the values of candidate cand in the columns cols.
Holds(r, cols, cand) ==
    \A k \in 1..Len(cols) : r[ColumnField(cols[k])] = cand[k]

\* MySQL can run a predicate over cols against candidates of that many values.
Runs(cols, cands) ==
    /\ \A k \in 1..Len(cols) : ColumnField(cols[k]) # ""
    /\ \A c \in 1..Len(cands) : Len(cands[c]) = Len(cols)

\* The ids a statement through b.Db with Model(new(T)) selects for
\* "(cols) in (cands)": committed rows that are not soft-deleted.
MatchIds(cols, cands) ==
    {i \in DOMAIN store :
        /\ Live(store[i])
        /\ \E c \in 1..Len(cands) : Holds(store[i], cols, cands[c])}

\* A verdict that calls every match a duplicate.
ExistVerdictAny(ids, id) == ids # {}

\* The verdict of the single checks on the selected ids and b.Id.
ExistVerdict(ids, id) ==
    IF ids = {} THEN FALSE
    ELSE IF Cardinality(ids) >= 2 THEN TRUE
    ELSE ids # {id}

\* strings.Join(itemVals, ","), and CONCAT_WS(',', ...) over a row.
RECURSIVE Join(_)
Join(itemVals) ==
    IF itemVals = <<>> THEN ""
    ELSE IF Len(itemVals) = 1 THEN itemVals[1]
    ELSE itemVals[1] \o "," \o Join(Tail(itemVals))
UniqueValues(r, cols) == Join([k \in 1..Len(cols) |-> r[ColumnField(cols[k])]])

\* The operations below only read; they leave everything but ret as it is.
ReadOnly ==
    UNCHANGED <<store, nextId, txDb, txState, txWrites, entity, StatesMachine,
                cacheData, stack, aux>>

\* BaseModel.CheckBusinessCodeExist
CheckBusinessCodeExist(t, e, filedName, businessCode) ==
    /\ CanCall(t)
    /\ LET call == [Ret("CheckBusinessCodeExist", e, "nil")
                       EXCEPT !.cols = <<filedName>>, !.vals = << <<businessCode>> >>]
           ids  == MatchIds(<<filedName>>, << <<businessCode>> >>) IN
       IF validateSafeColumnName(filedName) # "nil"
       THEN ret' = [call EXCEPT !.err = "column", !.out = <<TRUE>>]
       ELSE IF ~Runs(<<filedName>>, << <<businessCode>> >>)
       THEN ret' = [call EXCEPT !.err = "storage", !.queried = TRUE, !.out = <<TRUE>>]
       ELSE ret' = [call EXCEPT !.queried = TRUE,
                                !.out = <<ExistVerdict(ids, entity[e].Id)>>]
    /\ ReadOnly

\* BaseModel.CheckBusinessCodesExist: one "in" query, then every value is
\* looked up among the values the query returned.
CheckBusinessCodesExist(t, e, filedName, values) ==
    /\ CanCall(t)
    /\ LET cands == [i \in 1..Len(values) |-> <<values[i]>>]
           call  == [Ret("CheckBusinessCodesExist", e, "nil")
                        EXCEPT !.cols = <<filedName>>, !.vals = cands] IN
       IF validateSafeColumnName(filedName) # "nil"
       THEN ret' = [call EXCEPT !.err = "column"]
       ELSE IF ~Runs(<<filedName>>, cands)
       THEN ret' = [call EXCEPT !.err = "storage", !.queried = TRUE]
       ELSE \E dbMap \in {{store[i][ColumnField(filedName)] :
                               i \in MatchIds(<<filedName>>, cands)}} :
               ret' = [call EXCEPT !.queried = TRUE,
                                   !.out = [i \in 1..Len(values) |-> values[i] \in dbMap]]
    /\ ReadOnly

\* BaseModel.CheckUniqueKeysExist: the single check over several columns.
CheckUniqueKeysExist(t, e, filedNames, values) ==
    /\ CanCall(t)
    /\ LET call == [Ret("CheckUniqueKeysExist", e, "nil")
                       EXCEPT !.cols = filedNames, !.vals = <<values>>, !.queried = TRUE]
           ids  == MatchIds(filedNames, <<values>>) IN
       IF ~Runs(filedNames, <<values>>)
       THEN ret' = [call EXCEPT !.err = "storage", !.out = <<TRUE>>]
       ELSE ret' = [call EXCEPT !.out = <<ExistVerdict(ids, entity[e].Id)>>]
    /\ ReadOnly

\* BaseModel.CheckUniqueKeysExistBatch: one query for (id, UniqueValues) of
\* the rows matching any candidate, a map from UniqueValues to id filled in
\* the order of the result (a later row replaces an earlier one; the query
\* has no ORDER BY, so which row of a group is last is not fixed), then every
\* candidate is a duplicate when its joined values are in the map under an id
\* that is not in withOutIds.
CheckUniqueKeysExistBatch(t, e, filedNames, values, withOutIds) ==
    /\ CanCall(t)
    /\ LET call == [Ret("CheckUniqueKeysExistBatch", e, "nil")
                       EXCEPT !.cols = filedNames, !.vals = values, !.skip = withOutIds] IN
       IF values = <<>> \/ filedNames = <<>>
       THEN ret' = [call EXCEPT !.out = [i \in 1..Len(values) |-> FALSE]]
       ELSE IF ~Runs(filedNames, values)
       THEN ret' = [call EXCEPT !.err = "storage", !.queried = TRUE,
                                !.out = [i \in 1..Len(values) |-> FALSE]]
       ELSE \E list \in {MatchIds(filedNames, values)} :
            \E keys \in {{UniqueValues(store[i], filedNames) : i \in list}} :
            \E resMap \in [keys -> list] :
               /\ \A k \in keys : UniqueValues(store[resMap[k]], filedNames) = k
               /\ ret' = [call EXCEPT
                            !.queried = TRUE,
                            !.out = [i \in 1..Len(values) |->
                                        /\ Join(values[i]) \in keys
                                        /\ resMap[Join(values[i])] \notin withOutIds]]
    /\ ReadOnly

\* BaseModel.CountByBusinessCode: the number of rows holding the value.
CountByBusinessCode(t, e, filedName, filedValue) ==
    /\ CanCall(t)
    /\ LET call == [Ret("CountByBusinessCode", e, "nil")
                       EXCEPT !.cols = <<filedName>>, !.vals = << <<filedValue>> >>]
           ids  == MatchIds(<<filedName>>, << <<filedValue>> >>) IN
       IF validateSafeColumnName(filedName) # "nil"
       THEN ret' = [call EXCEPT !.err = "column"]
       ELSE IF ~Runs(<<filedName>>, << <<filedValue>> >>)
       THEN ret' = [call EXCEPT !.err = "storage", !.queried = TRUE]
       ELSE ret' = [call EXCEPT !.queried = TRUE, !.count = Cardinality(ids)]
    /\ ReadOnly

\* ---------------------------------------------------------- entity access
\* Cache.Set(key, value, ttl) by another owner of the key: the entry now holds
\* a value of the given type.
CacheSet(e, type) ==
    /\ cacheData' = [cacheData EXCEPT ![e] = TRUE]
    /\ cacheType' = [cacheType EXCEPT ![e] = type]
    /\ ret' = Ret("CacheSet", e, "nil")
    /\ UNCHANGED <<store, nextId, txDb, txState, txWrites, entity, StatesMachine,
                   stack, currUser, ctxCache, getCalls, fnRuns, cacheVars,
                   baseModel>>

\* BaseModel.GetCurrEntity, called on its own.
GetCurrEntityCall(t, e) ==
    /\ CanCall(t)
    /\ ret' = [Ret("GetCurrEntity", e, GetCurrEntityError(e).err)
                  EXCEPT !.key = GetCurrEntityError(e).key]
    /\ ReadOnly

\* BaseModel.ReInit(entity, baseModel), called on engine e for the entity at
\* address key: without a context or a store handle an error; otherwise the
\* target takes the context, the store handle and the table name of e and
\* the address of the entity as its EntityKey.  Nothing else is touched.
ReInit(t, e, key, target) ==
    /\ CanCall(t)
    /\ IF ~baseModel[e].Ctx \/ ~baseModel[e].Db
       THEN /\ ret' = [Ret("ReInit", e, "config") EXCEPT !.key = key,
                                                         !.target = target]
            /\ UNCHANGED baseModel
       ELSE /\ baseModel' = [baseModel EXCEPT ![target] =
                                [Ctx |-> baseModel[e].Ctx, Db |-> baseModel[e].Db,
                                 TableName |-> baseModel[e].TableName,
                                 EntityKey |-> key]]
            /\ ret' = [Ret("ReInit", e, "nil") EXCEPT !.key = key,
                                                      !.target = target]
    /\ UNCHANGED <<store, nextId, txDb, txState, txWrites, entity, StatesMachine,
                   cacheData, stack, currUser, cacheType, ctxCache, getCalls,
                   fnRuns, cacheVars>>

\* The request objects SetData copies from: the order id and the customer
\* of CreateSalesOrder.
RequestData == {[OrderId |-> "A", CustomerName |-> "X"]}

\* BaseModel.SetData: CopyDeep(entity, data) overwrites the entity's fields
\* that data carries.
SetData(t, e, data) ==
    /\ CanCall(t)
    /\ IF ~GetCurrEntity(e)
       THEN /\ ret' = Ret("SetData", e, "config")
            /\ UNCHANGED entity
       ELSE /\ entity' = [entity EXCEPT ![e].OrderId = data.OrderId,
                                        ![e].CustomerName = data.CustomerName]
            /\ ret' = Ret("SetData", e, "nil")
    /\ UNCHANGED <<store, nextId, txDb, txState, txWrites, StatesMachine,
                   cacheData, stack, aux>>

\* First(entity) over the selected ids: the row with the smallest primary
\* key, among those with the entity's own key when it has one.
FirstIds(ids, ent) == {i \in ids : ent.Id \in {0, i}}
First(ids, ent) ==
    CHOOSE i \in FirstIds(ids, ent) : \A j \in FirstIds(ids, ent) : i <= j

\* What a load through b.Db leaves alone.
LoadOnly ==
    UNCHANGED <<store, nextId, txDb, txState, txWrites, StatesMachine,
                cacheData, stack, aux>>

\* BaseModel.LoadData: First(entity) under the caller's condition, here
\* "status = ?", through b.Db.
LoadData(t, e, cond) ==
    /\ CanCall(t)
    /\ LET call == Ret("LoadData", e, "nil")
           ids  == {i \in DOMAIN store : Live(store[i]) /\ store[i].status = cond} IN
       IF ~GetCurrEntity(e)
       THEN /\ ret' = [call EXCEPT !.err = "config"]
            /\ UNCHANGED entity
       ELSE IF FirstIds(ids, entity[e]) = {}
       THEN /\ ret' = [call EXCEPT !.err = "notfound", !.via = {LoadDb(txDb)},
                                   !.queried = TRUE]
            /\ UNCHANGED entity
       ELSE /\ entity' = [entity EXCEPT ![e] =
                             Scan(First(ids, entity[e]), store[First(ids, entity[e])])]
            /\ ret' = [call EXCEPT !.via = {LoadDb(txDb)}, !.queried = TRUE,
                                   !.id = First(ids, entity[e])]
    /\ LoadOnly

\* BaseModel.LoadByBusinessCode: the column name is validated, then
\* First(entity) with "filedName = ?" through b.Db.
LoadByBusinessCode(t, e, filedName, filedValue) ==
    /\ CanCall(t)
    /\ LET call == [Ret("LoadByBusinessCode", e, "nil")
                       EXCEPT !.cols = <<filedName>>, !.vals = << <<filedValue>> >>]
           ids  == MatchIds(<<filedName>>, << <<filedValue>> >>) IN
       IF validateSafeColumnName(filedName) # "nil"
       THEN /\ ret' = [call EXCEPT !.err = "column"]
            /\ UNCHANGED entity
       ELSE IF ~GetCurrEntity(e)
       THEN /\ ret' = [call EXCEPT !.err = "config"]
            /\ UNCHANGED entity
       ELSE IF ~Runs(<<filedName>>, << <<filedValue>> >>)
       THEN /\ ret' = [call EXCEPT !.err = "storage", !.via = {LoadDb(txDb)},
                                   !.queried = TRUE]
            /\ UNCHANGED entity
       ELSE IF FirstIds(ids, entity[e]) = {}
       THEN /\ ret' = [call EXCEPT !.err = "notfound", !.via = {LoadDb(txDb)},
                                   !.queried = TRUE]
            /\ UNCHANGED entity
       ELSE /\ entity' = [entity EXCEPT ![e] =
                             Scan(First(ids, entity[e]), store[First(ids, entity[e])])]
            /\ ret' = [call EXCEPT !.via = {LoadDb(txDb)}, !.queried = TRUE,
                                   !.id = First(ids, entity[e])]
    /\ LoadOnly

\* ----------------------------------------------------------- list queries
\* A gorm statement under construction: the predicates ANDed so far, the
\* limit (-1: no LIMIT is written) and the offset (0: no OFFSET is written).
NewQuery == [where |-> {}, limit |-> -1, offset |-> 0]

\* db.Limit(n) merged into the statement: 0 keeps a limit set earlier.
Limit(q, n) == [q EXCEPT !.limit = IF n = 0 THEN q.limit ELSE n]

\* db.Offset(n) merged into the statement: 0 keeps an offset set earlier, a
\* negative one clears it.
Offset(q, n) ==
    [q EXCEPT !.offset = IF n = 0 THEN q.offset ELSE IF n < 0 THEN 0 ELSE n]

\* A ClearOffset that leaves the statement as it is.
ClearOffsetKept(q) == q

\* BaseModel.ClearOffset: db.Limit(-1).Offset(-1)
ClearOffset(q) == Offset(Limit(q, -1), -1)

\* A search object without any field set.
NoSearch == [OrderId |-> "", CustomerName |-> "", Page |-> 0, PageSize |-> 0]

\* MakeConditon(data): the condition of a search object.  Every non-empty
\* equality field adds its predicate; a page number together with a page
\* size adds the limit and the offset of that page, and without either of
\* them the query is not paginated.
MakeConditon(q, data) ==
    LET byOrder == IF data.OrderId = "" THEN {}
                   ELSE {[field |-> "order_id", value |-> data.OrderId]}
        byName  == IF data.CustomerName = "" THEN {}
                   ELSE {[field |-> "customer_name", value |-> data.CustomerName]}
        narrowed == [q EXCEPT !.where = @ \cup byOrder \cup byName] IN
    IF data.Page > 0 /\ data.PageSize > 0
    THEN Offset(Limit(narrowed, data.PageSize), (data.Page - 1) * data.PageSize)
    ELSE narrowed

\* db.Scopes(conds...): the conditions are applied in the order given.
RECURSIVE Scopes(_, _)
Scopes(q, conds) ==
    IF conds = <<>> THEN q ELSE Scopes(MakeConditon(q, Head(conds)), Tail(conds))

\* b.DefaultSearchConditon as NewBaseModel sets it: the query as it is.
DefaultSearchConditon(q) == q

\* The ids of the rows the predicates of q select through b.Db: committed,
\* not soft-deleted, holding every value asked for.
Selected(q) ==
    {i \in DOMAIN store :
        /\ Live(store[i])
        /\ \A w \in q.where : store[i][w.field] = w.value}

\* The ids in ids from the largest down: ORDER BY id desc.
RECURSIVE IdDesc(_)
IdDesc(ids) ==
    IF ids = {} THEN <<>>
    ELSE LET top == CHOOSE i \in ids : \A j \in ids : j <= i
         IN  <<top>> \o IdDesc(ids \ {top})

\* LIMIT and OFFSET of q applied to the rows of a result.
Page(q, rows) ==
    LET from == q.offset + 1
        to   == IF q.limit < 0 THEN Len(rows)
                ELSE IF q.offset + q.limit < Len(rows) THEN q.offset + q.limit
                ELSE Len(rows)
    IN  SubSeq(rows, from, to)

\* SELECT count(*) under q: one row holding the number of selected rows,
\* which the LIMIT and OFFSET of q may cut off, leaving total at 0.
CountRows(q) ==
    IF Page(q, <<Cardinality(Selected(q))>>) = <<>> THEN 0
    ELSE Cardinality(Selected(q))

\* The statement of Count and that of List: the default condition, the
\* permission conditions, the caller's conditions; Count then clears the
\* pagination.
CountQuery(perms, conds) ==
    ClearOffset(Scopes(Scopes(DefaultSearchConditon(NewQuery), perms), conds))
ListQuery(perms, conds) ==
    Scopes(Scopes(DefaultSearchConditon(NewQuery), perms), conds)

\* BaseModel.Count, on an engine with the permission conditions perms.
Count(t, e, perms, conds) ==
    /\ CanCall(t)
    /\ ret' = [Ret("Count", e, "nil")
                  EXCEPT !.perms = perms, !.conds = conds, !.queried = TRUE,
                         !.count = CountRows(CountQuery(perms, conds))]
    /\ ReadOnly

\* BaseModel.List, on an engine with the permission conditions perms and no
\* custom order.
List(t, e, perms, conds) ==
    /\ CanCall(t)
    /\ ret' = [Ret("List", e, "nil")
                  EXCEPT !.perms = perms, !.conds = conds, !.queried = TRUE,
                         !.out = Page(ListQuery(perms, conds),
                                      IdDesc(Selected(ListQuery(perms, conds))))]
    /\ ReadOnly

\* ------------------------------------------------------- per-request cache
\* GetDataWithCtxCache declares its mutex inside the function body: every
\* call locks a mutex of its own, which no other call can hold.
MutexFree(t) == TRUE

\* What GetDataWithCtxCache leaves alone.
CtxCacheOnly ==
    UNCHANGED <<store, nextId, txDb, txState, txWrites, entity, StatesMachine,
                cacheData, stack, currUser, cacheType, cacheVars, baseModel>>

\* GetDataWithCtxCache: mu.Lock(), then ctx.Get(key): a hit returns the
\* cached data, a miss goes on to the compute function.
GetDataCheck(t) ==
    /\ getCalls[t].at = "idle"
    /\ MutexFree(t)
    /\ IF CtxGet(ctxCache).exist
       THEN /\ getCalls' = [getCalls EXCEPT ![t] = [at |-> "idle", data |-> CtxGet(ctxCache).value]]
            /\ ret' = [Ret("GetDataWithCtxCache", "e1", "nil")
                          EXCEPT !.count = CtxGet(ctxCache).value]
       ELSE /\ getCalls' = [getCalls EXCEPT ![t] = [at |-> "missed", data |-> 0]]
            /\ ret' = Ret("GetDataCheck", "e1", "nil")
    /\ UNCHANGED <<ctxCache, fnRuns>>
    /\ CtxCacheOnly

\* fn() runs: it fails, and the call returns the error, or it produces a
\* value (each run its own).
GetDataCompute(t, fnErr) ==
    /\ getCalls[t].at = "missed"
    /\ fnRuns < MaxRuns
    /\ fnRuns' = fnRuns + 1
    /\ IF fnErr
       THEN /\ getCalls' = [getCalls EXCEPT ![t] = NoCall]
            /\ ret' = Ret("GetDataWithCtxCache", "e1", "fn")
       ELSE /\ getCalls' = [getCalls EXCEPT ![t] = [at |-> "computed", data |-> fnRuns']]
            /\ ret' = Ret("GetDataCompute", "e1", "nil")
    /\ UNCHANGED ctxCache
    /\ CtxCacheOnly

\* ctx.Set(key, data), and the call returns data.
GetDataSet(t) ==
    /\ getCalls[t].at = "computed"
    /\ ctxCache' = CtxSet(getCalls[t].data)
    /\ getCalls' = [getCalls EXCEPT ![t].at = "idle"]
    /\ ret' = [Ret("GetDataWithCtxCache", "e1", "nil") EXCEPT !.count = getCalls[t].data]
    /\ UNCHANGED fnRuns
    /\ CtxCacheOnly

\* ------------------------------------------------------------ specification
\* The status values a caller writes into an entity by hand.
Statuses == 0..MaxStatus

\* The engine whose entity the request works on; the other engine of the
\* scope only opens transactions.
Acting == {"e1"}

\* Transaction, as one task runs it.
TransactionStep(t) ==
    \/ \E m \in Engines : TransactionCall(t, m)
    \/ TransactionBegin(t)
    \/ TransactionRegister(t)
    \/ \E fcErr \in BOOLEAN : TransactionReturn(t, fcErr)

\* The mutating operations of the CRUD engine on its own entity.
WriteStep(t) ==
    \/ \E e \in Acting : Create(t, e)
    \/ \E e \in Acting : Update(t, e)
    \/ \E e \in Acting, ids \in SUBSET Ids : Del(t, e, ids)

\* Loading the entity and changing it in memory.
LoadStep(t) ==
    \/ \E e \in Acting, i \in Ids : LoadById(t, e, i)
    \/ \E e \in Acting, st \in Statuses : SetStatus(t, e, st)

\* The state machine operations.
EventStep(t) ==
    \/ \E e \in Acting, s \in InitStatuses : InitStateMachine(t, e, s, NoCallbacks)
    \/ \E e \in Acting, s \in InitStatuses, ev \in EventInputs :
           EventExecution(t, e, s, ev)

\* One request served by one task: transactions around the CRUD operations.
Next ==
    \/ TransactionStep("t1")
    \/ WriteStep("t1")
    \/ LoadStep("t1")

Spec == Init /\ [][Next]_vars

\* One request served by one task on a confirmed order (status 1): every
\* operation that writes, with the state machine's save among them, inside
\* and outside transactions that the other engine of the scope opens.
NextWrites ==
    \/ \E m \in Engines \ Acting : TransactionCall("t1", m)
    \/ TransactionBegin("t1")
    \/ TransactionRegister("t1")
    \/ \E fcErr \in BOOLEAN : TransactionReturn("t1", fcErr)
    \/ \E e \in Acting : Create("t1", e)
    \/ \E e \in Acting : CreateWithData("t1", e, 1)
    \/ \E e \in Acting : Update("t1", e)
    \/ \E e \in Acting, i \in Ids : UpdateWithData("t1", e, i, 1)
    \/ \E e \in Acting, ids \in SUBSET Ids : Del("t1", e, ids)
    \/ \E e \in Acting : InitStateMachine("t1", e, "1", NoCallbacks)
    \/ \E e \in Acting, ev \in {"allDelivery", "signFor"} :
           EventExecution("t1", e, "1", ev)

SpecWrites == Init /\ [][NextWrites]_vars

\* The actor a scope can carry when its engines are built: both keys set,
\* or the identity or the name absent or empty.
ActorInputs ==
    {Actor} \cup {[Actor EXCEPT !.id = x] : x \in {Absent, ""}}
            \cup {[Actor EXCEPT !.name = x] : x \in {Absent, ""}}

InitActor ==
    /\ \E first \in {NoRow, Row(1)} :
           /\ store = [i \in Ids |-> IF i = 1 THEN first ELSE NoRow]
           /\ nextId = IF first.exists THEN 2 ELSE 1
    /\ entity = [e \in Engines |-> NewEntity]
    /\ currUser \in ActorInputs
    /\ InitScope

\* The same writes in a scope with or without a complete actor.
SpecActor == InitActor /\ [][NextWrites]_vars

\* One request served by one task: the lifecycle of a loaded entity, with the
\* identity cache entry expiring at any moment.
NextEvent ==
    \/ TransactionStep("t1")
    \/ \E e \in Acting, i \in Ids : LoadById("t1", e, i)
    \/ EventStep("t1")
    \/ \E e \in Acting : CacheExpire(e)

SpecEvent == Init /\ [][NextEvent]_vars

\* Two tasks of one request, each opening a transaction and creating in it.
NextConc ==
    \E t \in Tasks :
        \/ TransactionStep(t)
        \/ \E e \in Acting : Create(t, e)
        \/ \E e \in Acting, i \in Ids : LoadById(t, e, i)

SpecConc == Init /\ [][NextConc]_vars

\* The uniqueness checks over a table of up to MaxRows orders, some of them
\* sharing an order id or a customer, one of them possibly soft-deleted, asked
\* by an engine whose entity is unpersisted or is one of the rows.
TableIds == 1..MaxRows
OrderIds == {"A", "B"}
CustomerNames == {"X", "Y"}
TableRows ==
    {NoRow, [Row(1) EXCEPT !.order_id = "A", !.customer_name = "X", !.deleted = TRUE]}
    \cup {[Row(1) EXCEPT !.order_id = o, !.customer_name = c] :
             o \in OrderIds, c \in CustomerNames}

InitUnique ==
    /\ store \in [TableIds -> TableRows]
    /\ nextId = MaxRows + 1
    /\ \E id \in 0..MaxRows :
           entity = [e \in Engines |-> [NewEntity EXCEPT !.Id = IF e = "e1" THEN id ELSE 0]]
    /\ currUser = Actor
    /\ InitScope

\* The candidate lists of the batch checks: up to two candidates, and one
\* list longer than the cap of 500 the batch checks are documented with.
ValueLists ==
    {<<>>} \cup {<<a>> : a \in OrderIds} \cup {<<a, b>> : a \in OrderIds, b \in OrderIds}
OverCapValues == [i \in 1..501 |-> "A"]
Candidates == {<<o, c>> : o \in OrderIds, c \in CustomerNames}
CandidateLists ==
    {<<>>} \cup {<<a>> : a \in Candidates} \cup {<<a, b>> : a \in Candidates, b \in Candidates}
OverCapCandidates == [i \in 1..501 |-> <<"A", "X">>]
UniqueKeys == {<<ColOrderId, ColCustomerName>>, <<ColOrderId \o <<";">>, ColCustomerName>>}

\* No operation has been called yet in this behaviour.
Fresh == ret = NoRet

\* One check is asked of the table; a check changes nothing another one reads.
NextUnique ==
    /\ Fresh
    /\ \/ \E c \in ColumnInputs, v \in OrderIds :
              CheckBusinessCodeExist("t1", "e1", c, v)
       \/ \E c \in ColumnInputs, vs \in ValueLists \cup {OverCapValues} :
              CheckBusinessCodesExist("t1", "e1", c, vs)
       \/ \E cs \in UniqueKeys, v \in Candidates :
              CheckUniqueKeysExist("t1", "e1", cs, v)
       \/ \E cs \in UniqueKeys, vs \in CandidateLists, skip \in SUBSET TableIds :
              CheckUniqueKeysExistBatch("t1", "e1", cs, vs, skip)
       \/ \E cs \in UniqueKeys :
              CheckUniqueKeysExistBatch("t1", "e1", cs, OverCapCandidates, {})
       \/ \E c \in ColumnInputs, v \in OrderIds :
              CountByBusinessCode("t1", "e1", c, v)

SpecUnique == InitUnique /\ [][NextUnique]_vars

\* The search objects of the list queries: a filter on a column or none,
\* with a page of up to MaxPage rows or without pagination, alone or after
\* another one; the engine has no permission condition or one on the order
\* id.
Searches ==
    {[NoSearch EXCEPT !.CustomerName = c, !.Page = p, !.PageSize = n] :
        c \in {""} \cup CustomerNames, p \in 0..MaxPage, n \in 0..MaxPage}
SearchLists ==
    {<<>>} \cup {<<a>> : a \in Searches}
           \cup {<<a, b>> : a \in Searches, b \in {[NoSearch EXCEPT !.Page = 1, !.PageSize = 1],
                                                    [NoSearch EXCEPT !.OrderId = "A"]}}
Permissions == {<<>>, <<[NoSearch EXCEPT !.OrderId = "A"]>>}

\* One list query is asked of the table.
NextList ==
    /\ Fresh
    /\ \/ \E perms \in Permissions, conds \in SearchLists : Count("t1", "e1", perms, conds)
       \/ \E perms \in Permissions, conds \in SearchLists : List("t1", "e1", perms, conds)

SpecList == InitUnique /\ [][NextList]_vars

\* Tasks of one request calling GetDataWithCtxCache with the same key.
NextCtxCache ==
    \E t \in Tasks :
        \/ GetDataCheck(t)
        \/ \E fnErr \in BOOLEAN : GetDataCompute(t, fnErr)
        \/ GetDataSet(t)

SpecCtxCache == Init /\ [][NextCtxCache]_vars

\* One request on its entity while the identity cache entry of the engine
\* comes and goes: it expires, and its key is set again, to the entity or to
\* a value of another type.
NextCache ==
    \/ \E e \in Acting : CacheExpire(e)
    \/ \E e \in Acting, type \in EntryTypes : CacheSet(e, type)
    \/ \E e \in Acting : GetCurrEntityCall("t1", e)
    \/ \E e \in Acting, data \in RequestData : SetData("t1", e, data)
    \/ \E e \in Acting : Create("t1", e)
    \/ \E e \in Acting : Update("t1", e)
    \/ \E e \in Acting, cond \in Statuses : LoadData("t1", e, cond)
    \/ \E e \in Acting, i \in Ids : LoadById("t1", e, i)
    \/ \E e \in Acting, filedName \in {ColOrderId, <<>>}, filedValue \in {"", "A"} :
           LoadByBusinessCode("t1", e, filedName, filedValue)

SpecCache == Init /\ [][NextCache]_vars

\* One request served by one task, in a scope with or without a complete
\* actor: the state machine is built with or without callbacks of the
\* caller and events are executed on a new or a loaded entity.
NextHooks ==
    \/ \E e \in Acting, i \in Ids : LoadById("t1", e, i)
    \/ \E e \in Acting, s \in InitStatuses, c \in Callbacks :
           InitStateMachine("t1", e, s, c)
    \/ \E e \in Acting, s \in InitStatuses, ev \in EventInputs :
           EventExecution("t1", e, s, ev)

SpecHooks == InitActor /\ [][NextHooks]_vars

\* Rebinding engines: each engine of the scope was built by NewBaseModel or
\* is a BaseModel value lacking the context, the store handle or both; the
\* registered entities are in the cache.  Engines are re-initialised for a
\* registered entity or for one a List query returned, and asked for their
\* entity.
BaseModels ==
    {[NoBaseModel EXCEPT !.Ctx = c, !.Db = d] : c \in BOOLEAN, d \in BOOLEAN}

InitReInit ==
    /\ \E first \in {NoRow, Row(1)} :
           /\ store = [i \in Ids |-> IF i = 1 THEN first ELSE NoRow]
           /\ nextId = IF first.exists THEN 2 ELSE 1
    /\ entity = [e \in Engines |-> NewEntity]
    /\ currUser = Actor
    /\ InitRequest
    /\ clock = StartTime
    /\ request = NoDeadline
    /\ items = NewCache
    /\ sets = <<>>
    /\ reads = [t \in Tasks |-> NoRead]
    /\ \E bs \in [Engines -> BaseModels] :
           baseModel = [e \in Engines |->
                           IF bs[e].Ctx /\ bs[e].Db THEN NewBaseModel(e) ELSE bs[e]]

NextReInit ==
    \/ \E e \in Engines, key \in EntityKeys, target \in Engines :
           ReInit("t1", e, key, target)
    \/ \E e \in Engines : GetCurrEntityCall("t1", e)

SpecReInit == InitReInit /\ [][NextReInit]_vars

\* Loads by primary key: a freshly built engine over a table of up to MaxRows
\* orders is asked for one id after another.
InitLoad ==
    /\ InitUnique
    /\ entity = [e \in Engines |-> NewEntity]

NextLoad == \E i \in TableIds : LoadById("t1", "e1", i)

SpecLoad == InitLoad /\ [][NextLoad]_vars

\* The lifetime of a registered entity: NewBaseModel has just built engine e1
\* for a request with or without a deadline and registered its entity with
\* the remaining lifetime; from then on tasks look the entity up while the
\* clock advances and the timer of the registration fires.
InitLifetime ==
    /\ store = [i \in Ids |-> NoRow]
    /\ nextId = 1
    /\ entity = [e \in Engines |-> NewEntity]
    /\ currUser = Actor
    /\ InitRequest
    /\ clock = StartTime
    /\ request \in Deadlines
    /\ items = SetItems(NewCache, <<>>, EntityKey("e1"),
                        Remaining(request, StartTime), StartTime)
    /\ sets = SetTimers(NewCache, <<>>, EntityKey("e1"),
                        Remaining(request, StartTime), StartTime)
    /\ reads = [t \in Tasks |-> NoRead]
    /\ baseModel = [e \in Engines |-> NewBaseModel(e)]

NextLifetime ==
    \/ \E t \in Tasks : GetRead(t, EntityKey("e1")) \/ GetCheck(t)
    \/ \E g \in 1..MaxSets : g <= Len(sets) /\ (TimerFire(g) \/ TimerRun(g))
    \/ Tick

SpecLifetime == InitLifetime /\ [][NextLifetime]_vars

\* The local cache under concurrent clients: tasks Set, Get and Delete one
\* key while the clock advances and the timers fire.
NextCacheTime ==
    \/ \E k \in Acting, d \in Expirations : Set(EntityKey(k), d)
    \/ \E t \in Tasks, k \in Acting : GetRead(t, EntityKey(k))
    \/ \E t \in Tasks : GetCheck(t)
    \/ \E k \in Acting : Delete(EntityKey(k))
    \/ \E g \in 1..MaxSets : g <= Len(sets) /\ (TimerFire(g) \/ TimerRun(g))
    \/ Tick

SpecCacheTime == Init /\ [][NextCacheTime]_vars


\* ------------------------------------------------------------------ claims
\* A transaction handle is registered under "txDb".
HandleRegistered == txDb.exist /\ txDb.value # {}

\* The operations that write rows.
MutatingOps == {"Create", "CreateWithData", "Update", "UpdateWithData", "Del",
                "EventExecution"}

\* C1: a Transaction call made while a transaction handle is registered
\* returns the nested-transaction error, does not run its closure (the call
\* stack is unchanged), opens no handle and leaves the registration as it was.
C1_NestedCallRejected ==
    [][ ( /\ HandleRegistered
          /\ \/ ret'.op = "TransactionCall"
             \/ (ret'.op = "Transaction" /\ ret'.err = "nested") )
        => ( /\ ret'.op = "Transaction"
             /\ ret'.err = "nested"
             /\ stack' = stack
             /\ txState' = txState
             /\ txWrites' = txWrites
             /\ txDb' = txDb ) ]_vars

\* C1 witness: inside the closure of a Transaction opened on one engine, a
\* Transaction call on the other engine of the scope has been rejected.
C1_Witness ==
    /\ ret.op = "Transaction"
    /\ ret.err = "nested"
    /\ InClosure("t1")
    /\ Top("t1").m # ret.e
    /\ txDb.value = {Top("t1").tx}

\* C2: when the closure returns an error, Transaction returns it and the
\* handle is rolled back with everything written through it; no committed row
\* changes between the call and that return, so the table is as it was before
\* the call.
C2_FailedClosureRolledBack ==
    [][ /\ (ret'.op = "Transaction" /\ ret'.err = "fc")
           => ( /\ store' = store
                /\ txState'[Top("t1").tx] = "rolledback"
                /\ txWrites'[Top("t1").tx] = NoWrites )
        /\ (stack["t1"] # <<>> /\ stack'["t1"] # <<>>) => store' = store ]_vars

\* C2 witness: Transaction has returned the closure's error after the closure
\* created the entity's row, and the table does not hold that row.
C2_Witness ==
    /\ ret.op = "Transaction"
    /\ ret.err = "fc"
    /\ entity["e1"].Id # 0
    /\ ~store[entity["e1"].Id].exists

\* C3: once a Transaction whose closure returned an error has returned, Tx()
\* is the default handle and a following Transaction call is not rejected.
C3_FailureClearsRegistration ==
    (ret.op = "Transaction" /\ ret.err = "fc")
        => (Tx(txDb) = DefaultDb /\ ~AlreadyOpen(txDb))

\* C4: once a Transaction whose closure returned nil has returned,
\* IsInTransaction is false and a following Transaction call is not rejected.
C4_SuccessClearsRegistration ==
    (ret.op = "Transaction" /\ ret.err = "nil")
        => (~IsInTransaction(txDb) /\ ~AlreadyOpen(txDb))

\* C5: while a transaction handle is registered, a mutating operation issues
\* its write through that handle and never through the default handle, and
\* the committed rows change only when a closure returns nil.
C5_WritesThroughRegisteredHandle ==
    [][ HandleRegistered
        => ( /\ ret'.op \in MutatingOps
                => ( /\ ret'.via \subseteq txDb.value
                     /\ ret'.err \in {"nil", "storage", "save"}
                            => ret'.via = txDb.value )
             /\ store' # store => (ret'.op = "Transaction" /\ ret'.err = "nil") ) ]_vars

\* C5 witness: inside a closure the save of EventExecution went through the
\* registered handle.
C5_Witness ==
    /\ ret.op = "EventExecution"
    /\ ret.err = "nil"
    /\ InClosure("t1")
    /\ ret.via = {Top("t1").tx}
    /\ txDb.value = ret.via

\* C6: a LoadById that succeeds inside a Transaction closure returns the row
\* as the closure's own writes left it.
C6_LoadSeesClosureWrites ==
    (ret.op = "LoadById" /\ ret.err = "nil" /\ InClosure("t1"))
        => LET row == View(Top("t1").tx)[ret.id]
           IN  Live(row) /\ entity[ret.e].Status = row.status

\* C7: at most one transaction handle is open for the scope at a time.
C7_OneOpenHandle ==
    Cardinality({h \in Handles : txState[h] = "open"}) <= 1

\* C8: EventExecution with an initStatus outside the source set of the event
\* (or with an event the table does not declare) returns an error, issues no
\* save, and changes neither the table, nor a transaction's rows, nor the entity.
C8_IllegalEventNoPersistence ==
    [][ (ret'.op = "EventExecution" /\ ~HasTransition(ret'.event, ret'.initStatus))
        => ( /\ ret'.err # "nil"
             /\ ret'.via = {}
             /\ store' = store
             /\ txWrites' = txWrites
             /\ nextId' = nextId
             /\ entity' = entity ) ]_vars

\* C8 witness: a declared event has been refused for a registered entity
\* with an initialised machine because initStatus is not one of its sources.
C8_Witness ==
    /\ ret.op = "EventExecution"
    /\ ret.err = "illegal"
    /\ ret.event \in EventNames
    /\ ~HasTransition(ret.event, ret.initStatus)

\* C9: EventExecution of an event that is legal from initStatus, on an
\* initialised machine and a registered entity, returns nil and leaves the
\* entity's row, as the ambient handle sees it, with the destination status.
C9_LegalEventPersistsDestination ==
    [][ ( /\ ret'.op = "EventExecution"
          /\ HasTransition(ret'.event, ret'.initStatus)
          /\ ~StatesMachine[ret'.e].isNil
          /\ cacheData[ret'.e] )
        => ( /\ ret'.err = "nil"
             /\ entity'[ret'.e].Id # 0
             /\ LET h   == CHOOSE x \in ret'.via : TRUE
                    row == IF h = DefaultDb
                           THEN store'[entity'[ret'.e].Id]
                           ELSE txWrites'[h][entity'[ret'.e].Id]
                IN  /\ Live(row)
                    /\ Itoa(row.status) = TransitionDst(ret'.event, ret'.initStatus) ) ]_vars

\* C10: EventExecution without an initialised machine, or for an entity that
\* is not in the identity cache, returns the configuration error and touches
\* neither the machine, nor the table, nor a transaction, nor the entity.
C10_UnconfiguredEventFails ==
    [][ ( /\ ret'.op = "EventExecution"
          /\ (StatesMachine[ret'.e].isNil \/ ~cacheData[ret'.e]) )
        => ( /\ ret'.err = "config"
             /\ ret'.via = {}
             /\ StatesMachine' = StatesMachine
             /\ store' = store
             /\ txWrites' = txWrites
             /\ nextId' = nextId
             /\ entity' = entity ) ]_vars

\* C10 witness: EventExecution has failed on an initialised machine whose
\* entity is no longer in the identity cache.
C10_Witness ==
    /\ ret.op = "EventExecution"
    /\ ret.err = "config"
    /\ ~StatesMachine[ret.e].isNil
    /\ ~cacheData[ret.e]

\* The live committed rows that hold value in the column the name resolves to.
Holders(column, value) ==
    {i \in DOMAIN store : Live(store[i]) /\ store[i][ColumnField(column)] = value}

\* C11: on a valid column CheckBusinessCodeExist answers, and it answers
\* false exactly when no live row holds the value or the only row holding it
\* is the entity's own; an entity with identifier 0 is never that row.
C11_DuplicateVerdict ==
    ( /\ ret.op = "CheckBusinessCodeExist"
      /\ validateSafeColumnName(ret.cols[1]) = "nil"
      /\ ColumnField(ret.cols[1]) # "" )
    => LET holders == Holders(ret.cols[1], ret.vals[1][1])
       IN  /\ ret.err = "nil"
           /\ ret.out = << ~( \/ holders = {}
                              \/ holders = {entity[ret.e].Id} ) >>

\* C11 witness: two rows hold the value and one of them is the entity's own;
\* the check has answered true.
C11_Witness ==
    /\ ret.op = "CheckBusinessCodeExist"
    /\ ret.err = "nil"
    /\ ColumnField(ret.cols[1]) = "order_id"
    /\ Cardinality(Holders(ret.cols[1], ret.vals[1][1])) = 2
    /\ entity[ret.e].Id \in Holders(ret.cols[1], ret.vals[1][1])
    /\ ret.out = <<TRUE>>

\* C12: a batch uniqueness check given more than 500 candidates returns an
\* error and issues no query.
C12_OverCapRejected ==
    ( /\ ret.op \in {"CheckBusinessCodesExist", "CheckUniqueKeysExistBatch"}
      /\ Len(ret.vals) > 500 )
    => (ret.err # "nil" /\ ~ret.queried)

\* C13: CheckUniqueKeysExistBatch answers with one entry per candidate, in
\* order, and entry i is true exactly when a live row whose identifier is not
\* excluded holds the values of candidate i in the named columns.
C13_BatchVerdict ==
    (ret.op = "CheckUniqueKeysExistBatch" /\ ret.err = "nil")
    => /\ Len(ret.out) = Len(ret.vals)
       /\ \A i \in 1..Len(ret.vals) :
              ret.out[i] = \E r \in DOMAIN store :
                              /\ r \notin ret.skip
                              /\ Live(store[r])
                              /\ Holds(store[r], ret.cols, ret.vals[i])

\* The operations that put a caller-supplied column name into a predicate.
ColumnOps == {"CheckBusinessCodeExist", "CheckBusinessCodesExist",
              "CheckUniqueKeysExist", "CheckUniqueKeysExistBatch",
              "CountByBusinessCode"}

\* C14: an operation given a column name that is empty or does not match the
\* allow-list pattern returns an error and issues no query.
C14_IllegalColumnRejected ==
    ( /\ ret.op \in ColumnOps
      /\ \E k \in 1..Len(ret.cols) : validateSafeColumnName(ret.cols[k]) # "nil" )
    => (ret.err # "nil" /\ ~ret.queried)

\* C15: two callers are never both past the miss check, and the callers
\* that have been given a value have been given the same one.
C15_ComputeOnce ==
    /\ Cardinality({t \in Tasks : getCalls[t].at \in {"missed", "computed"}}) <= 1
    /\ \A t \in Tasks, u \in Tasks :
           ( /\ getCalls[t].at = "idle" /\ getCalls[t].data # 0
             /\ getCalls[u].at = "idle" /\ getCalls[u].data # 0 )
           => getCalls[t].data = getCalls[u].data

\* The operations that start by fetching the engine's entity.
EntityOps == {"SetData", "Create", "Update", "LoadData", "LoadById",
              "LoadByBusinessCode"}

\* C16: while the engine's key has no entry in the identity cache, or an
\* entry of another type, GetCurrEntity returns an error that names the key,
\* and SetData, Create, Update, LoadData, LoadById and LoadByBusinessCode
\* return an error, issue no statement, and leave the table and every entity
\* as they were.
C16_UnregisteredEntityRejected ==
    [][ \A e \in Engines :
          ( /\ ~cacheData[e] \/ cacheType[e] # "entity"
            /\ ret'.e = e )
          => /\ ret'.op = "GetCurrEntity"
                  => (ret'.err # "nil" /\ ret'.key = EntityKey(e))
             /\ ret'.op \in EntityOps
                  => /\ ret'.err # "nil"
                     /\ ret'.via = {} /\ ~ret'.queried
                     /\ store' = store /\ txWrites' = txWrites
                     /\ nextId' = nextId
                     /\ entity' = entity ]_vars

\* C16 witness: Update was refused on a loaded entity whose cache entry holds
\* a value of another type.
C16_Witness ==
    /\ ret.op = "Update" /\ ret.err = "config"
    /\ cacheData[ret.e] /\ cacheType[ret.e] = "other"
    /\ entity[ret.e].Id # 0

\* C17: a successful Create of an entity without identifier inserts one row
\* under a new key, and leaves the entity with that key, with the current
\* actor as creator (identity and name) and with no updater; the row carries
\* the same creator and no updater.
C17_CreateStampsCreator ==
    [][ ( /\ ret'.op = "Create" /\ ret'.err = "nil"
          /\ entity[ret'.e].Id = 0 )
        => \E h \in ret'.via :
           LET ent == entity'[ret'.e]
               was == View(h)
               now == View(h)' IN
           /\ ent.Id # 0
           /\ ent.CreateBy = currUser.id /\ ent.CreateByName = currUser.name
           /\ ent.UpdateBy = "" /\ ent.UpdateByName = ""
           /\ ~was[ent.Id].exists /\ Live(now[ent.Id])
           /\ now[ent.Id].create_by = currUser.id
           /\ now[ent.Id].create_by_name = currUser.name
           /\ now[ent.Id].update_by = "" /\ now[ent.Id].update_by_name = ""
           /\ \A i \in Ids \ {ent.Id} : now[i] = was[i] ]_vars

\* C17 witness: Create has inserted a row, and the entity carries the new
\* key and the actor.
C17_Witness ==
    /\ ret.op = "Create" /\ ret.err = "nil"
    /\ entity[ret.e].Id # 0
    /\ entity[ret.e].CreateBy = Actor.id
    /\ \E h \in ret.via : Live(View(h)[entity[ret.e].Id])

\* C18: the round trip of an update.  A successful Update of a loaded entity
\* over its live row writes the entity's values and the current actor as
\* updater and keeps the row's creator and creation time; a successful
\* Transaction commits exactly what was written through its handle; a
\* successful LoadById returns the committed row.
C18_UpdateRoundTrip ==
    [][ /\ ( /\ ret'.op = "Update" /\ ret'.err = "nil"
              /\ entity[ret'.e].Id # 0 )
            => \E h \in ret'.via :
               LET id  == entity[ret'.e].Id
                   was == View(h)[id]
                   now == View(h)'[id] IN
               Live(was)
               => /\ Live(now)
                  /\ now.status = entity[ret'.e].Status
                  /\ now.update_by = currUser.id
                  /\ now.update_by_name = currUser.name
                  /\ now.create_by = was.create_by
                  /\ now.create_by_name = was.create_by_name
                  /\ now.created_at = was.created_at
        /\ \A t \in Tasks :
              ( /\ InClosure(t) /\ stack'[t] = Pop(t)
                /\ ret'.op = "Transaction" /\ ret'.err = "nil" )
              => store' = View(Top(t).tx)
        /\ (ret'.op = "LoadById" /\ ret'.err = "nil")
            => /\ Live(store[ret'.id])
               /\ entity'[ret'.e] = Scan(ret'.id, store[ret'.id]) ]_vars

\* C18 witness: the order that was there before the request (status 1,
\* created by u0 at t0) has been loaded, changed, updated and loaded again:
\* the entity shows the new status, the actor as updater and the old creator.
C18_Witness ==
    /\ ret.op = "LoadById" /\ ret.err = "nil"
    /\ entity[ret.e].Status # 1
    /\ entity[ret.e].UpdateBy = Actor.id /\ entity[ret.e].UpdateByName = Actor.name
    /\ entity[ret.e].CreateBy = "u0"
    /\ store[ret.id].created_at = "t0"

\* The operations that insert, update, save or delete.
WriteOps == {"Create", "CreateWithData", "Update", "UpdateWithData", "Del",
             "EventExecution"}

\* C19: in a scope built without a complete actor, every insert, update,
\* save and delete returns an error and leaves every row, committed or
\* written in a transaction, as it was.
C19_NoActorNoWrite ==
    [][ ( /\ currUser.id \in {Absent, ""} \/ currUser.name \in {Absent, ""}
          /\ ret'.op \in WriteOps )
        => /\ ret'.err # "nil"
           /\ store' = store /\ txWrites' = txWrites ]_vars

\* C19 witness: with an identity but no name in the scope, Del was refused
\* inside a transaction while the order it names is there.
C19_Witness ==
    /\ currUser.id = Actor.id /\ currUser.name = Absent
    /\ ret.op = "Del" /\ ret.err = "actor"
    /\ InClosure("t1")
    /\ Live(store[1])

\* Do the conditions carry a page: a page number together with a page size.
Paginated(conds) ==
    \E k \in 1..Len(conds) : conds[k].Page > 0 /\ conds[k].PageSize > 0

\* The search objects without their page number and page size.
Unpaged(conds) == [k \in 1..Len(conds) |-> [conds[k] EXCEPT !.Page = 0, !.PageSize = 0]]

\* C20: Count answers the number of rows its default, permission and caller
\* filters select, the same with and without the page of the caller's
\* conditions; that number is at least the length of what List returns for
\* the same conditions, and equal to it when they carry no page.
C20_CountIgnoresPagination ==
    /\ ret.op = "Count"
        => /\ ret.count = Cardinality(Selected(ListQuery(ret.perms, Unpaged(ret.conds))))
           /\ ret.count = CountRows(CountQuery(ret.perms, Unpaged(ret.conds)))
           /\ ret.count >= Len(Page(ListQuery(ret.perms, ret.conds),
                                     IdDesc(Selected(ListQuery(ret.perms, ret.conds)))))
    /\ ret.op = "List"
        => /\ Len(ret.out) <= CountRows(CountQuery(ret.perms, ret.conds))
           /\ ~Paginated(ret.conds)
                  => Len(ret.out) = CountRows(CountQuery(ret.perms, ret.conds))

\* C20 witness: Count was asked for the second page of one row of a table
\* with two matching rows and answered 2, where List returns one row.
C20_Witness ==
    /\ ret.op = "Count" /\ ret.count = 2
    /\ Len(ret.conds) = 1 /\ ret.conds[1].Page = 2 /\ ret.conds[1].PageSize = 1
    /\ Len(Page(ListQuery(ret.perms, ret.conds),
                IdDesc(Selected(ListQuery(ret.perms, ret.conds))))) = 1
\* The moment up to which an entity registered at StartTime is to stay
\* retrievable: the request deadline, or the default lifetime without one.
Lifetime == IF request.ok THEN request.at ELSE StartTime + DefaultTTL

\* C21: a Get of the key of an entity that NewBaseModel registered finds the
\* entity at every moment before the request deadline (before the default
\* five minutes are over when the request has none) and at no moment after
\* it; with a deadline that had passed at construction it never finds it.
C21_RegisteredUntilDeadline ==
    [][ ret'.op = "Get" =>
          /\ clock < Lifetime => ret'.found /\ ret'.value = 1
          /\ clock > Lifetime => ~ret'.found ]_vars

\* C21 witness: a lookup found the entity after the clock had advanced and
\* before the deadline of the request.
C21_Witness ==
    /\ ret.op = "Get" /\ ret.found
    /\ request.ok /\ clock > StartTime /\ clock < request.at

\* C22: LoadById(id) on an engine whose entity is registered fills the
\* registered entity from the row and returns no error when a non-deleted row
\* with that id exists, and returns the not-found error and leaves the entity
\* alone when none exists.
C22_LoadByIdFindsLiveRow ==
    [][ (ret'.op = "LoadById" /\ GetCurrEntity(ret'.e)) =>
          IF Live(store[ret'.id])
          THEN /\ ret'.err = "nil"
               /\ entity'[ret'.e] = Scan(ret'.id, store[ret'.id])
          ELSE /\ ret'.err = "notfound"
               /\ entity' = entity ]_vars

\* C23: on an initialised machine and a registered entity, EventExecution
\* refuses the event exactly when the transition table has no entry for the
\* event from initStatus, whatever state the machine was left in; an event
\* that is not cancelled leaves the machine in its destination from
\* initStatus.
C23_OutcomeFromInitStatus ==
    [][ ( /\ ret'.op = "EventExecution"
          /\ ~StatesMachine[ret'.e].isNil
          /\ cacheData[ret'.e] /\ cacheType[ret'.e] = "entity" )
        => IF HasTransition(ret'.event, ret'.initStatus)
           THEN /\ ret'.err # "illegal"
                /\ StatesMachine[ret'.e].callbacks # "cancel" =>
                       StatesMachine'[ret'.e].current =
                           TransitionDst(ret'.event, ret'.initStatus)
           ELSE ret'.err = "illegal" ]_vars

\* C23 witness: after an earlier event took the entity to status 3, from
\* where signFor is legal, signFor has been refused from initStatus 1.
C23_Witness ==
    /\ ret.op = "EventExecution" /\ ret.err = "illegal"
    /\ ret.event = "signFor" /\ ret.initStatus = "1"
    /\ entity[ret.e].Status = 3

\* C24: with no callback of the caller, a registered entity and a usable
\* ambient handle, EventExecution of a legal event whose destination is
\* initStatus returns nil, leaves the entity with that status and writes its
\* row with that status through the ambient handle.
C24_NoTransitionIsNoError ==
    [][ ( /\ ret'.op = "EventExecution"
          /\ HasTransition(ret'.event, ret'.initStatus)
          /\ ~StatesMachine[ret'.e].isNil
          /\ StatesMachine[ret'.e].callbacks = NoCallbacks
          /\ cacheData[ret'.e] /\ cacheType[ret'.e] = "entity"
          /\ Usable(Tx(txDb)) /\ currUser = Actor )
        => ( TransitionDst(ret'.event, ret'.initStatus) = ret'.initStatus =>
               /\ ret'.err = "nil"
               /\ ret'.via = {Tx(txDb)}
               /\ Itoa(entity'[ret'.e].Status) = ret'.initStatus
               /\ LET id  == entity'[ret'.e].Id
                      row == IF Tx(txDb) = DefaultDb
                             THEN store'[id] ELSE txWrites'[Tx(txDb)][id]
                  IN  Live(row) /\ Itoa(row.status) = ret'.initStatus ) ]_vars

\* C24 witness: partDelivery from status 2 has returned nil inside a
\* transaction, saved through the transaction handle.
C24_Witness ==
    /\ ret.op = "EventExecution" /\ ret.err = "nil"
    /\ ret.event = "partDelivery" /\ ret.initStatus = "2"
    /\ ret.via # {DefaultDb}

\* C25: EventExecution of a legal event on an initialised machine and a
\* registered entity returns an error and writes nothing when a callback
\* cancels the event or reports an error, and returns an error when the Save
\* fails because the scope has no complete actor.
C25_FailureAborts ==
    [][ ( /\ ret'.op = "EventExecution"
          /\ HasTransition(ret'.event, ret'.initStatus)
          /\ ~StatesMachine[ret'.e].isNil
          /\ cacheData[ret'.e] /\ cacheType[ret'.e] = "entity" )
        => /\ StatesMachine[ret'.e].callbacks # NoCallbacks =>
                 /\ ret'.err # "nil"
                 /\ ret'.via = {}
                 /\ store' = store /\ txWrites' = txWrites /\ nextId' = nextId
           /\ ( \/ currUser.id \in {Absent, ""}
                \/ currUser.name \in {Absent, ""} ) =>
                 /\ ret'.err # "nil"
                 /\ store' = store /\ txWrites' = txWrites /\ nextId' = nextId ]_vars

\* C25 witness: partDelivery from status 2 has been aborted because a
\* callback reported an error inside the no-transition outcome.
C25_Witness ==
    /\ ret.op = "EventExecution" /\ ret.err = "event"
    /\ ret.event = "partDelivery" /\ ret.initStatus = "2"
    /\ StatesMachine[ret.e].callbacks = "fail"

\* C26: an item that Set stored with expiration 0 and that Get read from the
\* map is returned by that Get.
C26_ZeroExpirationNeverExpires ==
    [][ \A t \in Tasks :
          ( /\ reads[t].at = "read"
            /\ sets[reads[t].item.value].expiration = 0
            /\ reads'[t].at = "idle" )
          => ret'.found ]_vars

\* No task is inside Transaction and no transaction of the scope has been
\* rolled back: no Transaction has run yet, or every one that ran returned
\* after its closure returned nil.
NoClosure ==
    /\ \A t \in Tasks : stack[t] = <<>>
    /\ \A h \in Handles : txState[h] # "rolledback"

\* C27: while no Transaction closure is executing, before any Transaction
\* and after the closure returned nil, Tx() is the default handle, and a
\* mutating operation issued then goes through the default handle, never
\* through a committed one.
C27_TxDefaultOutsideClosure ==
    /\ [](NoClosure => Tx(txDb) = DefaultDb)
    /\ [][ (NoClosure /\ ret'.op \in WriteOps /\ ret'.via # {})
             => ret'.via = {DefaultDb} ]_vars

\* C27 witness: after a transaction committed, a mutating operation has
\* written through the default handle.
C27_Witness ==
    /\ NoClosure
    /\ \E h \in Handles : txState[h] = "committed"
    /\ ret.op \in WriteOps /\ ret.err = "nil" /\ ret.via = {DefaultDb}

\* C28: while the expiration of an item stored with a positive expiration has
\* not elapsed, only a client's Delete or Set of the key removes or replaces
\* the item.
C28_LiveEntryOnlyRemovedByClient ==
    [][ \A k \in Engines :
          ( /\ items[k].found /\ items[k].timer # 0
            /\ clock < items[k].expiry
            /\ ret'.op \notin {"Delete", "Set"} )
          => items'[k] = items[k] ]_vars

\* C29: ReInit called on an engine that has a context and a store handle
\* returns nil and leaves the target bound to the entity: the target's
\* GetCurrEntity finds an entity under the address of the one passed in.
\* Called on an engine without a context or without a store handle it
\* returns an error and leaves every engine as it was.
C29_ReInitBindsEntity ==
    [][ ret'.op = "ReInit" =>
          IF baseModel[ret'.e].Ctx /\ baseModel[ret'.e].Db
          THEN /\ ret'.err = "nil"
               /\ baseModel'[ret'.target].EntityKey = ret'.key
               /\ IF ret'.key \in Engines
                  THEN cacheData'[ret'.key] /\ cacheType'[ret'.key] = "entity"
                  ELSE FALSE
          ELSE /\ ret'.err # "nil"
               /\ baseModel' = baseModel ]_vars

\* C30: an EventExecution that returns an error leaves the status of the
\* entity in memory as it was before the call.
C30_ErrorKeepsStatus ==
    [][ (ret'.op = "EventExecution" /\ ret'.err # "nil")
        => entity'[ret'.e].Status = entity[ret'.e].Status ]_vars

====
